---- MODULE Spec2Model ----
\* Model of labrat's core: status derivation (pkg/hub/managedclusters.go),
\* the ClusterDeployment fetcher (pkg/hub/clusterdeployment.go, stored in the
\* second part of src/pkg/hub/managedclusters.go), the correlator
\* (pkg/hub/clusters.go), the kubeconfig extractor (src/unnamed/part_003) and
\* the table output (pkg/hub/output.go).
\*
\* Bytes that the code decodes or searches (the kubeconfig payload) are
\* sequences of byte values; base64 is computed on them.
\*
\* Strings that the code only compares or copies are TLA+ strings.  Strings
\* that the code builds or searches (error texts, the namespace/name secret
\* reference) are sequences of words, so that fmt.Errorf/fmt.Sprintf are
\* concatenations and strings.Contains is a search for a run of words.
EXTENDS FiniteSets, Integers, Sequences, TLC

\* ---------------------------------------------------------------- bounds
\* Largest fleet returned by the list query.
MaxClusters == 2
\* Longest taint list of one ManagedCluster.
MaxTaints == 2
\* Longest condition list of one ManagedCluster.
MaxConditions == 2
\* Longest input sequence handed to Filter.
MaxFilterLen == 3

\* ------------------------------------------------------- program constants
UnreachableTaintKey == "cluster.open-cluster-management.io/unreachable"
StatusReady == "Ready"
StatusNotReady == "NotReady"
StatusUnknown == "Unknown"
ManagedClusterConditionAvailable == "ManagedClusterConditionAvailable"
ConditionTrue == "True"
ConditionFalse == "False"
ConditionUnknown == "Unknown"

ClusterStatuses == {StatusReady, StatusNotReady, StatusUnknown}

\* ------------------------------------------------------------- variables
VARIABLES
    pc,               \* position of the running call
    cluster,          \* the ManagedCluster being converted by List's loop body
    info,             \* the ManagedClusterInfo List's loop body produced for it
    clusters,         \* Filter's input sequence
    filter,           \* Filter's criterion (ManagedClusterFilter)
    filtered,         \* Filter's return value
    managedClusters,  \* ListCombined: the slice managedClusterClient.List returned
    err,              \* ListCombined: the error managedClusterClient.List returned
    fetched,          \* ListCombined: the dynamic client's answer to each Get so far
    combined,         \* ListCombined: the slice being built
    result,           \* ListCombined: the returned (slice, error) pair
    requests,         \* remote requests issued so far, in order
    clusterName,      \* Get / Extract / ExtractToFile: the clusterName argument
    getResult,        \* Get: the returned (info, error) pair
    operation,        \* which extractor method was called: Extract or ExtractToFile
    secretName,       \* Extract: the name read from adminKubeconfigSecretRef
    extracted,        \* Extract: the returned (bytes, error) pair
    outputFile,       \* ExtractToFile: what the file system holds at outputPath
    written,          \* ExtractToFile: the returned error
    wide,             \* WriteCombined: the wide argument
    output            \* Write / WriteCombined: the lines written to the writer

hubVars == <<pc, cluster, info, clusters, filter, filtered,
             managedClusters, err, fetched, combined, result, requests>>
getVars == <<clusterName, getResult>>
extractVars == <<operation, secretName, extracted, outputFile, written>>
outputVars == <<wide, output>>

vars == <<hubVars, getVars, extractVars, outputVars>>

\* ------------------------------------------------------------- helpers
\* All sequences over S of length at most n.
SeqsUpTo(S, n) == UNION {[1..k -> S] : k \in 0..n}

\* strings.Contains on word sequences: needle occurs as a contiguous run.
Contains(s, needle) ==
    \E i \in 0..(Len(s) - Len(needle)) :
        \A k \in 1..Len(needle) : s[i + k] = needle[k]

\* A Go string used as one %s argument: the empty string contributes nothing.
Str(s) == IF s = "" THEN <<>> ELSE <<s>>

\* nil error
NoError == <<>>

\* The values of the variables a call does not use.
NoGot == [ok |-> FALSE, info |-> <<>>, err |-> NoError]
NoExtracted == [kubeconfig |-> <<>>, err |-> NoError]
NoFile == [parent |-> "absent", kind |-> "absent", mode |-> {}, data |-> <<>>, umask |-> {}]
IdleGet == clusterName = "" /\ getResult = NoGot
IdleExtract ==
    /\ operation = ""
    /\ secretName = ""
    /\ extracted = NoExtracted
    /\ outputFile = NoFile
    /\ written = NoError
IdleOutput == wide = FALSE /\ output = <<>>

\* ------------------------------------------------- status derivation
\* The conditions loop of deriveStatus, from index i on.  An Available entry
\* whose status is none of True/False/Unknown matches no case of the switch
\* and the loop goes on to the next entry.
RECURSIVE scanConditions(_, _)
scanConditions(conds, i) ==
    IF i > Len(conds) THEN StatusUnknown
    ELSE IF conds[i].Type = ManagedClusterConditionAvailable
              /\ conds[i].Status = ConditionTrue THEN StatusReady
    ELSE IF conds[i].Type = ManagedClusterConditionAvailable
              /\ conds[i].Status = ConditionFalse THEN StatusNotReady
    ELSE IF conds[i].Type = ManagedClusterConditionAvailable
              /\ conds[i].Status = ConditionUnknown THEN StatusUnknown
    ELSE scanConditions(conds, i + 1)

\* The taint loop of deriveStatus.
hasUnreachableTaint(c) ==
    \E i \in 1..Len(c.Taints) : c.Taints[i].Key = UnreachableTaintKey

\* Mutant: the taint check is skipped.
deriveStatusIgnoringTaints(c) == scanConditions(c.Conditions, 1)

\* Mutant: a cluster without a usable Available condition is reported NotReady.
deriveStatusDefaultNotReady(c) ==
    IF hasUnreachableTaint(c) THEN StatusNotReady
    ELSE IF \E i \in 1..Len(c.Conditions) :
                c.Conditions[i].Type = ManagedClusterConditionAvailable
         THEN scanConditions(c.Conditions, 1)
         ELSE StatusNotReady

deriveStatus(c) ==
    IF hasUnreachableTaint(c) THEN StatusNotReady
    ELSE scanConditions(c.Conditions, 1)

\* getAvailableCondition: status and message of the first Available entry.
RECURSIVE findAvailable(_, _)
findAvailable(conds, i) ==
    IF i > Len(conds) THEN 0
    ELSE IF conds[i].Type = ManagedClusterConditionAvailable THEN i
    ELSE findAvailable(conds, i + 1)

getAvailableCondition(c) ==
    LET i == findAvailable(c.Conditions, 1) IN
    IF i = 0 THEN [Available |-> "Unknown", Message |-> ""]
    ELSE [Available |-> c.Conditions[i].Status, Message |-> c.Conditions[i].Message]

\* The body of List's loop for one converted item.
clusterInfo(c) ==
    [Name      |-> c.Name,
     Status    |-> deriveStatus(c),
     Available |-> getAvailableCondition(c).Available,
     Message   |-> getAvailableCondition(c).Message]

\* ------------------------------------------------- input spaces
ClusterNames == <<"c1", "c2", "c3", "c4">>

TaintKeys == {UnreachableTaintKey, "example.io/maintenance"}
Taints == [Key : TaintKeys]

ConditionTypes == {ManagedClusterConditionAvailable, "ManagedClusterJoined"}
\* metav1.ConditionStatus is a string type: the wire value is not restricted
\* to the three named constants.
ConditionValues == {ConditionTrue, ConditionFalse, ConditionUnknown, ""}
Conditions == [Type : ConditionTypes, Status : ConditionValues, Message : {"m1", "m2"}]

ManagedClusters(name) ==
    [Name : {name},
     Taints : SeqsUpTo(Taints, MaxTaints),
     Conditions : SeqsUpTo(Conditions, MaxConditions)]

NoCluster == [Name |-> "", Taints |-> <<>>, Conditions |-> <<>>]
NoInfo == [Name |-> "", Status |-> "", Available |-> "", Message |-> ""]
NoResult == [clusters |-> <<>>, err |-> NoError]

\* ------------------------------------------------- SpecStatus
\* One item of the list response goes through List's loop body.
InitStatus ==
    /\ pc = "item"
    /\ cluster \in ManagedClusters(ClusterNames[1])
    /\ info = NoInfo
    /\ clusters = <<>>
    /\ filter = [Status |-> ""]
    /\ filtered = <<>>
    /\ managedClusters = <<>>
    /\ err = NoError
    /\ fetched = <<>>
    /\ combined = <<>>
    /\ result = NoResult
    /\ requests = <<>>
    /\ IdleGet /\ IdleExtract /\ IdleOutput

ListItem ==
    /\ pc = "item"
    /\ info' = clusterInfo(cluster)
    /\ pc' = "appended"
    /\ UNCHANGED <<cluster, clusters, filter, filtered,
                   managedClusters, err, fetched, combined, result, requests>>
    /\ UNCHANGED <<getVars, extractVars, outputVars>>

NextStatus == ListItem

SpecStatus == InitStatus /\ [][NextStatus]_vars

\* C1: a ManagedCluster carrying a taint with the unreachable key is reported
\* NotReady by List's loop body whatever its conditions are; in particular it is
\* never reported Ready.
C1_UnreachableIsNotReady ==
    (pc = "appended" /\ \E i \in 1..Len(cluster.Taints) :
                            cluster.Taints[i].Key = UnreachableTaintKey)
        => info.Status = StatusNotReady

\* The case of C1: tainted, with a first Available condition that says True.
C1_Witness ==
    /\ pc = "appended"
    /\ Len(cluster.Taints) = 2
    /\ cluster.Taints[1].Key # UnreachableTaintKey
    /\ cluster.Taints[2].Key = UnreachableTaintKey
    /\ Len(cluster.Conditions) > 0
    /\ cluster.Conditions[1].Type = ManagedClusterConditionAvailable
    /\ cluster.Conditions[1].Status = ConditionTrue
    /\ info.Status = StatusNotReady

\* The Available condition of a cluster: the first entry of that type (0: none).
FirstAvailable(c) ==
    IF \E i \in 1..Len(c.Conditions) : c.Conditions[i].Type = ManagedClusterConditionAvailable
    THEN CHOOSE i \in 1..Len(c.Conditions) :
            /\ c.Conditions[i].Type = ManagedClusterConditionAvailable
            /\ \A k \in 1..(i - 1) : c.Conditions[k].Type # ManagedClusterConditionAvailable
    ELSE 0

Untainted(c) == \A i \in 1..Len(c.Taints) : c.Taints[i].Key # UnreachableTaintKey

\* C2: without an unreachable taint the status follows the Available
\* condition: True gives Ready, False gives NotReady, Unknown gives Unknown, no
\* Available condition gives Unknown; the status is always one of the three.
C2_StatusFollowsAvailable ==
    pc = "appended" =>
        /\ info.Status \in ClusterStatuses
        /\ Untainted(cluster) =>
            LET i == FirstAvailable(cluster) IN
            /\ i = 0 => info.Status = StatusUnknown
            /\ (i # 0 /\ cluster.Conditions[i].Status = ConditionTrue)
                    => info.Status = StatusReady
            /\ (i # 0 /\ cluster.Conditions[i].Status = ConditionFalse)
                    => info.Status = StatusNotReady
            /\ (i # 0 /\ cluster.Conditions[i].Status = ConditionUnknown)
                    => info.Status = StatusUnknown

\* The case of C2: no unreachable taint, another condition first, then Available = False.
C2_Witness ==
    /\ pc = "appended"
    /\ Untainted(cluster)
    /\ Len(cluster.Taints) > 0
    /\ FirstAvailable(cluster) = 2
    /\ cluster.Conditions[2].Status = ConditionFalse
    /\ info.Status = StatusNotReady

\* ------------------------------------------------- Filter
\* The loop of Filter from index i on, acc being the slice built so far.
RECURSIVE filterLoop(_, _, _, _)
filterLoop(cs, status, i, acc) ==
    IF i > Len(cs) THEN acc
    ELSE filterLoop(cs, status, i + 1,
                    IF cs[i].Status = status THEN Append(acc, cs[i]) ELSE acc)

\* Mutant: the early return for an empty criterion is missing.
FilterWithoutEarlyReturn(cs, f) == filterLoop(cs, f.Status, 1, <<>>)

\* Mutant: a criterion that is no known status is treated like no criterion.
FilterUnrecognizedReturnsAll(cs, f) ==
    IF f.Status \notin ClusterStatuses THEN cs
    ELSE filterLoop(cs, f.Status, 1, <<>>)

Filter(cs, f) ==
    IF f.Status = "" THEN cs
    ELSE filterLoop(cs, f.Status, 1, <<>>)

\* Entries List produces for well-formed clusters with one Available condition.
FilterEntries ==
    {clusterInfo([Name |-> n, Taints |-> <<>>,
                  Conditions |-> <<[Type |-> ManagedClusterConditionAvailable,
                                    Status |-> v, Message |-> "m1"]>>]) :
        n \in {ClusterNames[1], ClusterNames[2]},
        v \in {ConditionTrue, ConditionFalse, ConditionUnknown}}

\* The --status values tried: none, the three statuses, a wrong case, a wrong word.
FilterCriteria == {"", StatusReady, StatusNotReady, StatusUnknown, "ready", "InvalidStatus"}

InitFilter ==
    /\ pc = "filter"
    /\ clusters \in SeqsUpTo(FilterEntries, MaxFilterLen)
    /\ filter \in [Status : FilterCriteria]
    /\ filtered = <<>>
    /\ cluster = NoCluster
    /\ info = NoInfo
    /\ managedClusters = <<>>
    /\ err = NoError
    /\ fetched = <<>>
    /\ combined = <<>>
    /\ result = NoResult
    /\ requests = <<>>
    /\ IdleGet /\ IdleExtract /\ IdleOutput

FilterCall ==
    /\ pc = "filter"
    /\ filtered' = Filter(clusters, filter)
    /\ pc' = "filtered"
    /\ UNCHANGED <<cluster, info, clusters, filter,
                   managedClusters, err, fetched, combined, result, requests>>
    /\ UNCHANGED <<getVars, extractVars, outputVars>>

NextFilter == FilterCall

SpecFilter == InitFilter /\ [][NextFilter]_vars

\* C3: with an empty criterion Filter returns its input unchanged, and an
\* empty input gives an empty result for every criterion.
C3_FilterIdentityAndEmpty ==
    pc = "filtered" =>
        /\ filter.Status = "" => filtered = clusters
        /\ Len(clusters) = 0 => Len(filtered) = 0

\* The case of C3: an empty criterion applied to a full-length mixed input.
C3_Witness ==
    /\ pc = "filtered"
    /\ filter.Status = ""
    /\ Len(clusters) = MaxFilterLen
    /\ clusters[1].Status # clusters[2].Status
    /\ filtered = clusters

\* Positions of the input whose Status equals s.
Matching(cs, s) == {i \in 1..Len(cs) : cs[i].Status = s}

\* The k-th smallest member of a set of positions.
KthOf(P, k) == CHOOSE i \in P : Cardinality({j \in P : j < i}) = k - 1

Has(m, k) == k \in DOMAIN m

PlatformLabel == "hive.openshift.io/cluster-platform"
RegionLabel == "hive.openshift.io/cluster-region"

\* A complete document, as in test/fixtures/clusterdeployment_running.yaml.
RunningDocument(n) ==
    [metadata |-> [name |-> n, namespace |-> n,
                   labels |-> (PlatformLabel :> "aws") @@ (RegionLabel :> "us-east-1")],
     spec     |-> [powerState |-> "Running", installed |-> TRUE,
                   clusterMetadata |->
                       [adminKubeconfigSecretRef |-> [name |-> "admin-kubeconfig"]]],
     status   |-> [apiURL |-> "https://api.example.com:6443",
                   webConsoleURL |-> "https://console.example.com",
                   installVersion |-> "4.20.6",
                   powerState |-> "Running"]]

\* Desired state Hibernating, observed state still Running; no labels.
HibernatingDocument(n) ==
    [metadata |-> [name |-> n, namespace |-> n],
     spec     |-> [powerState |-> "Hibernating", installed |-> TRUE,
                   clusterMetadata |->
                       [adminKubeconfigSecretRef |-> [name |-> "admin-kubeconfig"]]],
     status   |-> [powerState |-> "Running", installVersion |-> "4.19.8"]]

\* Nothing but the identity: no labels, no spec, no status.
BareDocument(n) == [metadata |-> [name |-> n, namespace |-> n]]

\* A secret reference in a document whose metadata carries no namespace.
NoNamespaceDocument(n) ==
    [metadata |-> [name |-> n],
     spec     |-> [clusterMetadata |->
                       [adminKubeconfigSecretRef |-> [name |-> "admin-kubeconfig"]]]]

\* A document without a metadata section.
NoMetadataDocument(n) == [spec |-> [powerState |-> "Running", installed |-> TRUE]]

ClusterDeployments(n) ==
    {RunningDocument(n), HibernatingDocument(n), BareDocument(n),
     NoNamespaceDocument(n), NoMetadataDocument(n)}

NilObject == [nil |-> TRUE]

\* Error texts of the dynamic client's Get.
NotFoundError(n) == <<"clusterdeployments.hive.openshift.io", n, "not", "found">>
ForbiddenError(n) == <<"clusterdeployments.hive.openshift.io", n, "is", "forbidden">>
\* The denial the RBAC authorizer reports when a bound role does not exist.
ForbiddenRoleError(n) ==
    <<"clusterdeployments.hive.openshift.io", n, "is", "forbidden", ":", "RBAC", ":",
      "clusterrole.rbac.authorization.k8s.io", "hive-reader", "not", "found">>
ConnectionError == <<"dial", "tcp", ":", "lookup", "api.hub", ":", "no", "such", "host">>

GetErrors(n) == {NotFoundError(n), ForbiddenError(n), ForbiddenRoleError(n), ConnectionError}

\* What dynamicClient.Resource(gvr).Namespace(n).Get(ctx, n) can answer.
GetAnswers(n) ==
    {[ok |-> TRUE, obj |-> d, err |-> NoError] : d \in ClusterDeployments(n)}
    \cup {[ok |-> FALSE, obj |-> NilObject, err |-> e] : e \in GetErrors(n)}

\* ClusterDeploymentInfo{}
ZeroClusterDeploymentInfo ==
    [Name |-> "", Namespace |-> "", PowerState |-> "", Installed |-> FALSE,
     APIUrl |-> "", ConsoleURL |-> "", KubeconfigSecretName |-> "",
     KubeconfigSecretNS |-> "", Platform |-> "", Region |-> "", Version |-> ""]

\* m[k] when m carries k, the zero value z otherwise (the `if x, ok := ...` idiom).
Field(m, k, z) == IF Has(m, k) THEN m[k] ELSE z

\* map[string]interface{}{}
EmptyObject == [k \in {} |-> k]

\* m[k] as a nested object; an absent section reads like an empty one.
Section(m, k) == IF Has(m, k) THEN m[k] ELSE EmptyObject

\* Mutant: the spec section's power state wins over the status section's.
parseClusterDeploymentSpecWins(obj) ==
    IF ~Has(obj, "metadata")
    THEN [ok |-> FALSE, info |-> ZeroClusterDeploymentInfo,
          err |-> <<"metadata", "not", "found", "or", "invalid">>]
    ELSE
    LET metadata  == obj["metadata"]
        labels    == Section(metadata, "labels")
        spec      == Section(obj, "spec")
        status    == Section(obj, "status")
        ref       == Section(Section(spec, "clusterMetadata"), "adminKubeconfigSecretRef")
        namespace == Field(metadata, "namespace", "")
        fromStatus == Field(status, "powerState", "")
        power     == Field(spec, "powerState", fromStatus)
    IN [ok |-> TRUE, err |-> NoError,
        info |-> [Name       |-> Field(metadata, "name", ""),
                  Namespace  |-> namespace,
                  Platform   |-> Field(labels, PlatformLabel, ""),
                  Region     |-> Field(labels, RegionLabel, ""),
                  PowerState |-> IF power = "" THEN "Unknown" ELSE power,
                  Installed  |-> Field(spec, "installed", FALSE),
                  KubeconfigSecretName |-> Field(ref, "name", ""),
                  KubeconfigSecretNS   |-> IF Has(ref, "name") THEN namespace ELSE "",
                  APIUrl     |-> Field(status, "apiURL", ""),
                  ConsoleURL |-> Field(status, "webConsoleURL", ""),
                  Version    |-> Field(status, "installVersion", "")]]

\* Mutant: a document without a spec section is refused as well.
parseClusterDeploymentRequiringSpec(obj) ==
    IF ~Has(obj, "metadata") \/ ~Has(obj, "spec")
    THEN [ok |-> FALSE, info |-> ZeroClusterDeploymentInfo,
          err |-> <<"metadata", "not", "found", "or", "invalid">>]
    ELSE
    LET metadata  == obj["metadata"]
        labels    == Section(metadata, "labels")
        spec      == Section(obj, "spec")
        status    == Section(obj, "status")
        ref       == Section(Section(spec, "clusterMetadata"), "adminKubeconfigSecretRef")
        namespace == Field(metadata, "namespace", "")
        fromSpec  == Field(spec, "powerState", "")
        power     == Field(status, "powerState", fromSpec)
    IN [ok |-> TRUE, err |-> NoError,
        info |-> [Name       |-> Field(metadata, "name", ""),
                  Namespace  |-> namespace,
                  Platform   |-> Field(labels, PlatformLabel, ""),
                  Region     |-> Field(labels, RegionLabel, ""),
                  PowerState |-> IF power = "" THEN "Unknown" ELSE power,
                  Installed  |-> Field(spec, "installed", FALSE),
                  KubeconfigSecretName |-> Field(ref, "name", ""),
                  KubeconfigSecretNS   |-> IF Has(ref, "name") THEN namespace ELSE "",
                  APIUrl     |-> Field(status, "apiURL", ""),
                  ConsoleURL |-> Field(status, "webConsoleURL", ""),
                  Version    |-> Field(status, "installVersion", "")]]

\* clusterdeployment.go parseClusterDeployment.
parseClusterDeployment(obj) ==
    IF ~Has(obj, "metadata")
    THEN [ok |-> FALSE, info |-> ZeroClusterDeploymentInfo,
          err |-> <<"metadata", "not", "found", "or", "invalid">>]
    ELSE
    LET metadata  == obj["metadata"]
        labels    == Section(metadata, "labels")
        spec      == Section(obj, "spec")
        status    == Section(obj, "status")
        ref       == Section(Section(spec, "clusterMetadata"), "adminKubeconfigSecretRef")
        namespace == Field(metadata, "namespace", "")
        fromSpec  == Field(spec, "powerState", "")
        power     == Field(status, "powerState", fromSpec)
    IN [ok |-> TRUE, err |-> NoError,
        info |-> [Name       |-> Field(metadata, "name", ""),
                  Namespace  |-> namespace,
                  Platform   |-> Field(labels, PlatformLabel, ""),
                  Region     |-> Field(labels, RegionLabel, ""),
                  PowerState |-> IF power = "" THEN "Unknown" ELSE power,
                  Installed  |-> Field(spec, "installed", FALSE),
                  KubeconfigSecretName |-> Field(ref, "name", ""),
                  KubeconfigSecretNS   |-> IF Has(ref, "name") THEN namespace ELSE "",
                  APIUrl     |-> Field(status, "apiURL", ""),
                  ConsoleURL |-> Field(status, "webConsoleURL", ""),
                  Version    |-> Field(status, "installVersion", "")]]

\* clusterDeploymentClient.Get, given the dynamic client's answer.
Get(name, answer) ==
    IF ~answer.ok
    THEN [ok |-> FALSE, info |-> ZeroClusterDeploymentInfo,
          err |-> <<"failed", "to", "get", "ClusterDeployment", name, ":">> \o answer.err]
    ELSE LET parsed == parseClusterDeployment(answer.obj) IN
         IF ~parsed.ok
         THEN [ok |-> FALSE, info |-> ZeroClusterDeploymentInfo,
               err |-> <<"failed", "to", "parse", "ClusterDeployment", name, ":">>
                           \o parsed.err]
         ELSE parsed

\* ------------------------------------------------- the correlator
isNotFoundError(e) ==
    IF e = NoError THEN FALSE ELSE Contains(e, <<"not", "found">>)

\* CombinedClusterInfo with the four ManagedCluster fields set (clusters.go:44-49).
healthEntry(mc) ==
    [Name |-> mc.Name, Status |-> mc.Status, Available |-> mc.Available,
     Message |-> mc.Message,
     PowerState |-> "", Platform |-> "", Region |-> "", Version |-> "",
     APIUrl |-> "", ConsoleURL |-> "", KubeconfigSecret |-> <<>>]

\* fmt.Sprintf("%s/%s", ns, name)
formatSecret(ns, name) == Str(ns) \o <<"/">> \o Str(name)

\* Mutant: the "Unknown" sentinel is written over the status as well.
combinedEntryUnknownOverStatus(mc, got) ==
    LET e == healthEntry(mc) IN
    IF ~got.ok
    THEN IF isNotFoundError(got.err)
         THEN [e EXCEPT !.PowerState = "N/A", !.Platform = "N/A",
                        !.Region = "N/A", !.Version = "N/A"]
         ELSE [e EXCEPT !.PowerState = "Unknown", !.Platform = "Unknown",
                        !.Region = "Unknown", !.Version = "Unknown",
                        !.Status = "Unknown"]
    ELSE [e EXCEPT !.PowerState = got.info.PowerState, !.Platform = got.info.Platform,
                   !.Region = got.info.Region, !.Version = got.info.Version,
                   !.APIUrl = got.info.APIUrl, !.ConsoleURL = got.info.ConsoleURL,
                   !.KubeconfigSecret =
                       IF got.info.KubeconfigSecretName # ""
                       THEN formatSecret(got.info.KubeconfigSecretNS,
                                         got.info.KubeconfigSecretName)
                       ELSE <<>>]

\* Mutant: every failed fetch is treated alike, as an unknown failure.
combinedEntryWithoutNotFound(mc, got) ==
    LET e == healthEntry(mc) IN
    IF ~got.ok
    THEN [e EXCEPT !.PowerState = "Unknown", !.Platform = "Unknown",
                   !.Region = "Unknown", !.Version = "Unknown"]
    ELSE [e EXCEPT !.PowerState = got.info.PowerState, !.Platform = got.info.Platform,
                   !.Region = got.info.Region, !.Version = got.info.Version,
                   !.APIUrl = got.info.APIUrl, !.ConsoleURL = got.info.ConsoleURL,
                   !.KubeconfigSecret =
                       IF got.info.KubeconfigSecretName # ""
                       THEN formatSecret(got.info.KubeconfigSecretNS,
                                         got.info.KubeconfigSecretName)
                       ELSE <<>>]

\* Mutant: the secret reference is formatted without testing the secret name.
combinedEntryAlwaysFormats(mc, got) ==
    LET e == healthEntry(mc) IN
    IF ~got.ok
    THEN IF isNotFoundError(got.err)
         THEN [e EXCEPT !.PowerState = "N/A", !.Platform = "N/A",
                        !.Region = "N/A", !.Version = "N/A"]
         ELSE [e EXCEPT !.PowerState = "Unknown", !.Platform = "Unknown",
                        !.Region = "Unknown", !.Version = "Unknown"]
    ELSE [e EXCEPT !.PowerState = got.info.PowerState, !.Platform = got.info.Platform,
                   !.Region = got.info.Region, !.Version = got.info.Version,
                   !.APIUrl = got.info.APIUrl, !.ConsoleURL = got.info.ConsoleURL,
                   !.KubeconfigSecret =
                       formatSecret(got.info.KubeconfigSecretNS,
                                    got.info.KubeconfigSecretName)]

\* Mutant: the power state of a record that was found is not copied.
combinedEntryWithoutPowerState(mc, got) ==
    LET e == healthEntry(mc) IN
    IF ~got.ok
    THEN IF isNotFoundError(got.err)
         THEN [e EXCEPT !.PowerState = "N/A", !.Platform = "N/A",
                        !.Region = "N/A", !.Version = "N/A",
                        !.APIUrl = "", !.ConsoleURL = "", !.KubeconfigSecret = <<>>]
         ELSE [e EXCEPT !.PowerState = "Unknown", !.Platform = "Unknown",
                        !.Region = "Unknown", !.Version = "Unknown"]
    ELSE [e EXCEPT !.PowerState = "Unknown", !.Platform = got.info.Platform,
                   !.Region = got.info.Region, !.Version = got.info.Version,
                   !.APIUrl = got.info.APIUrl, !.ConsoleURL = got.info.ConsoleURL,
                   !.KubeconfigSecret =
                       IF got.info.KubeconfigSecretName # ""
                       THEN formatSecret(got.info.KubeconfigSecretNS,
                                         got.info.KubeconfigSecretName)
                       ELSE <<>>]

\* The entry ListCombined builds for mc from what Get returned (clusters.go:44-85).
combinedEntry(mc, got) ==
    LET e == healthEntry(mc) IN
    IF ~got.ok
    THEN IF isNotFoundError(got.err)
         THEN [e EXCEPT !.PowerState = "N/A", !.Platform = "N/A",
                        !.Region = "N/A", !.Version = "N/A",
                        !.APIUrl = "", !.ConsoleURL = "", !.KubeconfigSecret = <<>>]
         ELSE [e EXCEPT !.PowerState = "Unknown", !.Platform = "Unknown",
                        !.Region = "Unknown", !.Version = "Unknown"]
    ELSE [e EXCEPT !.PowerState = got.info.PowerState, !.Platform = got.info.Platform,
                   !.Region = got.info.Region, !.Version = got.info.Version,
                   !.APIUrl = got.info.APIUrl, !.ConsoleURL = got.info.ConsoleURL,
                   !.KubeconfigSecret =
                       IF got.info.KubeconfigSecretName # ""
                       THEN formatSecret(got.info.KubeconfigSecretNS,
                                         got.info.KubeconfigSecretName)
                       ELSE <<>>]

\* Mutant: a fetch that failed for another reason than absence drops the cluster.
loopBodySkippingFailures(acc, mc, answer) ==
    LET got == Get(mc.Name, answer) IN
    IF ~got.ok /\ ~isNotFoundError(got.err) THEN acc
    ELSE Append(acc, combinedEntry(mc, got))

\* One iteration of ListCombined's loop (clusters.go:43-88).
loopBody(acc, mc, answer) == Append(acc, combinedEntry(mc, Get(mc.Name, answer)))

\* The whole loop over mcs, answers[i] being the dynamic client's answer to fetch i.
RECURSIVE listCombinedLoop(_, _, _, _)
listCombinedLoop(mcs, answers, i, acc) ==
    IF i > Len(mcs) THEN acc
    ELSE listCombinedLoop(mcs, answers, i + 1, loopBody(acc, mcs[i], answers[i]))

\* ------------------------------------------------- the list query
\* Items of a list response.  WellTyped is FALSE for an item that
\* FromUnstructured cannot convert into a clusterv1.ManagedCluster (a field of
\* the wrong JSON type).
FleetTaints == {<<>>, <<[Key |-> UnreachableTaintKey]>>}
FleetConditions ==
    {<<>>} \cup {<<[Type |-> ManagedClusterConditionAvailable, Status |-> v,
                    Message |-> "m1"]>> :
                    v \in {ConditionTrue, ConditionFalse}}

FleetItems(n) ==
    [Name : {n}, Taints : FleetTaints, Conditions : FleetConditions, WellTyped : {TRUE}]
    \cup {[Name |-> n, Taints |-> <<>>, Conditions |-> <<>>, WellTyped |-> FALSE]}

\* The k-item responses: names are unique, item i is named ClusterNames[i].
FleetsOf(k) ==
    {f \in [1..k -> UNION {FleetItems(ClusterNames[i]) : i \in 1..k}] :
        \A i \in 1..k : f[i].Name = ClusterNames[i]}

ListErrors ==
    {<<"managedclusters.cluster.open-cluster-management.io", "is", "forbidden">>,
     ConnectionError}

\* What dynamicClient.Resource(gvr).List(ctx) can answer.
ListAnswers ==
    {[ok |-> TRUE, items |-> f, err |-> NoError] : f \in UNION {FleetsOf(k) : k \in 0..MaxClusters}}
    \cup {[ok |-> FALSE, items |-> <<>>, err |-> e] : e \in ListErrors}

\* Mutant: an item that does not convert is left out and the rest returned.
ListSkippingUnconvertible(answer) ==
    IF ~answer.ok
    THEN [clusters |-> <<>>,
          err |-> <<"failed", "to", "list", "managed", "clusters", ":">> \o answer.err]
    ELSE [clusters |-> [i \in 1..Len(SelectSeq(answer.items, LAMBDA it : it.WellTyped)) |->
                           clusterInfo(SelectSeq(answer.items, LAMBDA it : it.WellTyped)[i])],
          err |-> NoError]

\* managedClusterClient.List, given the dynamic client's answer.
List(answer) ==
    IF ~answer.ok
    THEN [clusters |-> <<>>,
          err |-> <<"failed", "to", "list", "managed", "clusters", ":">> \o answer.err]
    ELSE IF \E i \in 1..Len(answer.items) : ~answer.items[i].WellTyped
    THEN [clusters |-> <<>>,
          err |-> <<"failed", "to", "convert", "unstructured", "to", "ManagedCluster">>]
    ELSE [clusters |-> [i \in 1..Len(answer.items) |-> clusterInfo(answer.items[i])],
          err |-> NoError]

ListRequest ==
    [verb |-> "list", resource |-> "managedclusters", namespace |-> "", name |-> ""]
\* Mutant: the fetch is a cluster-wide lookup by name.
GetRequestWithoutNamespace(n) ==
    [verb |-> "get", resource |-> "clusterdeployments", namespace |-> "", name |-> n]

GetRequest(n) ==
    [verb |-> "get", resource |-> "clusterdeployments", namespace |-> n, name |-> n]

\* ------------------------------------------------- Spec: one ListCombined call
Init ==
    /\ pc = "start"
    /\ cluster = NoCluster
    /\ info = NoInfo
    /\ clusters = <<>>
    /\ filter = [Status |-> ""]
    /\ filtered = <<>>
    /\ managedClusters = <<>>
    /\ err = NoError
    /\ fetched = <<>>
    /\ combined = <<>>
    /\ result = NoResult
    /\ requests = <<>>
    /\ IdleGet /\ IdleExtract /\ IdleOutput

\* Mutant: the error of the listing is not looked at.
afterListIgnoringError(listed) == [pc |-> "loop", result |-> NoResult]

\* clusters.go:37-39: where the call stands once List has returned.
afterList(listed) ==
    IF listed.err # NoError
    THEN [pc |-> "returned",
          result |-> [clusters |-> <<>>,
                      err |-> <<"failed", "to", "list", "managed", "clusters", ":">>
                                  \o listed.err]]
    ELSE [pc |-> "loop", result |-> NoResult]

\* clusters.go:36-42: the listing, its error check, the empty output slice.
ListCombinedList ==
    /\ pc = "start"
    /\ \E answer \in ListAnswers :
         LET listed == List(answer) IN
         /\ managedClusters' = listed.clusters
         /\ err' = listed.err
         /\ pc' = afterList(listed).pc
         /\ result' = afterList(listed).result
    /\ requests' = Append(requests, ListRequest)
    /\ combined' = <<>>
    /\ UNCHANGED <<cluster, info, clusters, filter, filtered, fetched>>
    /\ UNCHANGED <<getVars, extractVars, outputVars>>

\* clusters.go:43-88: one iteration, with its one targeted fetch.
ListCombinedFetch ==
    /\ pc = "loop"
    /\ Len(fetched) < Len(managedClusters)
    /\ LET mc == managedClusters[Len(fetched) + 1] IN
       /\ requests' = Append(requests, GetRequest(mc.Name))
       /\ \E answer \in GetAnswers(mc.Name) :
            /\ fetched' = Append(fetched, answer)
            /\ combined' = loopBody(combined, mc, answer)
    /\ UNCHANGED <<pc, cluster, info, clusters, filter, filtered,
                   managedClusters, err, result>>
    /\ UNCHANGED <<getVars, extractVars, outputVars>>

\* clusters.go:90: the loop is over.
ListCombinedReturn ==
    /\ pc = "loop"
    /\ Len(fetched) >= Len(managedClusters)
    /\ result' = [clusters |-> combined, err |-> NoError]
    /\ pc' = "returned"
    /\ UNCHANGED <<cluster, info, clusters, filter, filtered,
                   managedClusters, err, fetched, combined, requests>>
    /\ UNCHANGED <<getVars, extractVars, outputVars>>

Next == ListCombinedList \/ ListCombinedFetch \/ ListCombinedReturn

Spec == Init /\ [][Next]_vars

\* ------------------------------------------------- claims on ListCombined
\* The entries of the call: the slice being built, and the slice returned.
Entries == IF pc = "returned" THEN result.clusters ELSE combined

\* What Get returned for the i-th fetch.
Got(i) == Get(managedClusters[i].Name, fetched[i])

\* The i-th fetch found no record of that name.
Absent(i) == ~fetched[i].ok /\ fetched[i].err = NotFoundError(managedClusters[i].Name)

\* The i-th fetch failed although the record is not absent: the request was
\* denied, the hub was not reached, or the record came back and did not parse.
OtherFailure(i) == ~Got(i).ok /\ ~Absent(i)

\* C5: when the listing succeeded with N entries, ListCombined returns N
\* entries and no error, and entry i carries Name, Status, Available and Message
\* of listing entry i, whatever the outcome of the fetch for that cluster.
C5_HealthFieldsPreserved ==
    (pc = "returned" /\ err = NoError) =>
        /\ result.err = NoError
        /\ Len(result.clusters) = Len(managedClusters)
        /\ \A i \in 1..Len(managedClusters) :
            /\ result.clusters[i].Name = managedClusters[i].Name
            /\ result.clusters[i].Status = managedClusters[i].Status
            /\ result.clusters[i].Available = managedClusters[i].Available
            /\ result.clusters[i].Message = managedClusters[i].Message

\* The case of C5: two clusters, one found and one denied, both kept as listed.
C5_Witness ==
    /\ pc = "returned"
    /\ err = NoError
    /\ Len(managedClusters) = 2
    /\ Got(1).ok
    /\ fetched[2].err = ForbiddenError(managedClusters[2].Name)
    /\ managedClusters[1].Status = StatusNotReady
    /\ managedClusters[2].Status = StatusReady
    /\ result.clusters[1].Status = StatusNotReady
    /\ result.clusters[2].Status = StatusReady
    /\ result.clusters[2].Message = "m1"

\* C6: an entry whose fetch reported not-found has PowerState, Platform,
\* Region and Version "N/A" and empty APIUrl, ConsoleURL and KubeconfigSecret.
C6_NotFoundIsNA ==
    \A i \in 1..Len(fetched) :
        Absent(i) =>
            /\ i <= Len(Entries)
            /\ Entries[i].PowerState = "N/A"
            /\ Entries[i].Platform = "N/A"
            /\ Entries[i].Region = "N/A"
            /\ Entries[i].Version = "N/A"
            /\ Entries[i].APIUrl = ""
            /\ Entries[i].ConsoleURL = ""
            /\ Entries[i].KubeconfigSecret = <<>>

\* The case of C6: a returned fleet whose second cluster has no ClusterDeployment.
C6_Witness ==
    /\ pc = "returned"
    /\ Len(fetched) = 2
    /\ Got(1).ok
    /\ Absent(2)
    /\ result.clusters[2].PowerState = "N/A"
    /\ result.clusters[2].Name = managedClusters[2].Name

\* C7: an entry whose fetch failed for another reason than absence has
\* PowerState, Platform, Region and Version "Unknown", and the call still
\* succeeds with one entry per cluster of the fleet.
C7_OtherErrorIsUnknown ==
    /\ \A i \in 1..Len(fetched) :
        OtherFailure(i) =>
            /\ i <= Len(Entries)
            /\ Entries[i].PowerState = "Unknown"
            /\ Entries[i].Platform = "Unknown"
            /\ Entries[i].Region = "Unknown"
            /\ Entries[i].Version = "Unknown"
    /\ (pc = "returned" /\ err = NoError) =>
            /\ result.err = NoError
            /\ Len(result.clusters) = Len(managedClusters)

\* C8: entry i depends on health record i and on the outcome of fetch i
\* only: replacing the outcome of any other fetch j by any other outcome gives a
\* result of the same length with the same entry at every position i # j, and
\* entry i is the entry of cluster i.
C8_EntriesIndependent ==
    (pc = "returned" /\ err = NoError) =>
        \A j \in 1..Len(managedClusters) :
            \A a \in GetAnswers(managedClusters[j].Name) :
                \A other \in {listCombinedLoop(managedClusters,
                                                [fetched EXCEPT ![j] = a], 1, <<>>)} :
                   /\ Len(other) = Len(result.clusters)
                   /\ \A i \in (1..Len(managedClusters)) \ {j} :
                        /\ i <= Len(other)
                        /\ i <= Len(result.clusters)
                        /\ other[i] = result.clusters[i]
                        /\ result.clusters[i].Name = managedClusters[i].Name

\* The case of C8: the first fetch is denied, the second finds its record,
\* and the second entry is the one a run with the first record present gives.
C8_Witness ==
    /\ pc = "returned"
    /\ err = NoError
    /\ Len(managedClusters) = 2
    /\ fetched[1].err = ForbiddenError(managedClusters[1].Name)
    /\ fetched[2].ok
    /\ fetched[2].obj = RunningDocument(managedClusters[2].Name)
    /\ result.clusters[2].PowerState = "Running"
    /\ result.clusters[2].Name = ClusterNames[2]

\* C9: when the listing fails ListCombined returns an error and no
\* entries, and no ClusterDeployment is fetched.
C9_ListFailureIsFatal ==
    err # NoError =>
        /\ pc = "returned"
        /\ result.err # NoError
        /\ result.clusters = <<>>
        /\ combined = <<>>
        /\ fetched = <<>>
        /\ \A r \in 1..Len(requests) : requests[r].verb # "get"

\* The case of C9: the list query could not reach the hub.
C9_Witness ==
    /\ pc = "returned"
    /\ err # NoError
    /\ Contains(err, ConnectionError)
    /\ Contains(result.err, ConnectionError)
    /\ requests = <<ListRequest>>

\* C10: for a cluster whose record was fetched, PowerState, Platform,
\* Region, Version, APIUrl and ConsoleURL are the record's, and KubeconfigSecret
\* is "<KubeconfigSecretNS>/<KubeconfigSecretName>" when the record has a
\* non-empty secret name and empty otherwise.
C10_FoundCopiesFields ==
    \A i \in 1..Len(fetched) :
        Got(i).ok =>
            LET cd == Got(i).info IN
            /\ i <= Len(Entries)
            /\ Entries[i].PowerState = cd.PowerState
            /\ Entries[i].Platform = cd.Platform
            /\ Entries[i].Region = cd.Region
            /\ Entries[i].Version = cd.Version
            /\ Entries[i].APIUrl = cd.APIUrl
            /\ Entries[i].ConsoleURL = cd.ConsoleURL
            /\ Entries[i].KubeconfigSecret =
                    IF cd.KubeconfigSecretName = "" THEN <<>>
                    ELSE IF cd.KubeconfigSecretNS = ""
                    THEN <<"/", cd.KubeconfigSecretName>>
                    ELSE <<cd.KubeconfigSecretNS, "/", cd.KubeconfigSecretName>>

\* The case of C10: a complete record, and a record without a secret reference.
C10_Witness ==
    /\ pc = "returned"
    /\ Len(fetched) = 2
    /\ fetched[1].ok /\ fetched[1].obj = RunningDocument(ClusterNames[1])
    /\ fetched[2].ok /\ fetched[2].obj = BareDocument(ClusterNames[2])
    /\ result.clusters[1].PowerState = "Running"
    /\ result.clusters[1].Platform = "aws"
    /\ result.clusters[1].Region = "us-east-1"
    /\ result.clusters[1].Version = "4.20.6"
    /\ result.clusters[1].APIUrl = "https://api.example.com:6443"
    /\ result.clusters[1].ConsoleURL = "https://console.example.com"
    /\ result.clusters[1].KubeconfigSecret = <<ClusterNames[1], "/", "admin-kubeconfig">>
    /\ result.clusters[2].KubeconfigSecret = <<>>
    /\ result.clusters[2].PowerState = "Unknown"

\* ------------------------------------------------- byte strings and base64
\* A []byte, and a Go string whose bytes the code inspects, is a sequence of
\* byte values; string(b) and []byte(s) copy the bytes.
\* Longest document, in lines, that a secret stores.
MaxLines == 3

apiVersionMarker == <<97, 112, 105, 86, 101, 114, 115, 105, 111, 110, 58>>  \* "apiVersion:"
kindMarker == <<107, 105, 110, 100, 58>>                                    \* "kind:"

\* unicode.IsSpace on one byte: \t \n \v \f \r and the space.
isSpace(c) == c \in {9, 10, 11, 12, 13, 32}

\* strings.TrimSpace: leading and trailing white space removed.
RECURSIVE TrimLeft(_)
TrimLeft(s) ==
    IF Len(s) > 0 /\ isSpace(s[1]) THEN TrimLeft(Tail(s)) ELSE s
RECURSIVE TrimRight(_)
TrimRight(s) ==
    IF Len(s) > 0 /\ isSpace(s[Len(s)]) THEN TrimRight(SubSeq(s, 1, Len(s) - 1)) ELSE s
TrimSpace(s) == TrimRight(TrimLeft(s))

\* strings.HasPrefix
HasPrefix(s, prefix) ==
    /\ Len(s) >= Len(prefix)
    /\ \A k \in 1..Len(prefix) : s[k] = prefix[k]

\* The standard alphabet: A-Z, a-z, 0-9, + and /.
encodeStd(v) ==
    IF v < 26 THEN 65 + v
    ELSE IF v < 52 THEN 97 + (v - 26)
    ELSE IF v < 62 THEN 48 + (v - 52)
    ELSE IF v = 62 THEN 43 ELSE 47

\* The value of one character of the alphabet, -1 for any other byte
\* (the padding character included).
decodeMap(c) ==
    IF c >= 65 /\ c <= 90 THEN c - 65
    ELSE IF c >= 97 /\ c <= 122 THEN c - 97 + 26
    ELSE IF c >= 48 /\ c <= 57 THEN c - 48 + 52
    ELSE IF c = 43 THEN 62
    ELSE IF c = 47 THEN 63
    ELSE -1

\* base64.StdEncoding.EncodeToString: three bytes give four characters, the
\* last group is padded with '='.
RECURSIVE EncodeToString(_)
EncodeToString(src) ==
    IF Len(src) = 0 THEN <<>>
    ELSE IF Len(src) = 1 THEN
        <<encodeStd(src[1] \div 4), encodeStd((src[1] % 4) * 16), 61, 61>>
    ELSE IF Len(src) = 2 THEN
        <<encodeStd(src[1] \div 4),
          encodeStd((src[1] % 4) * 16 + src[2] \div 16),
          encodeStd((src[2] % 16) * 4), 61>>
    ELSE
        <<encodeStd(src[1] \div 4),
          encodeStd((src[1] % 4) * 16 + src[2] \div 16),
          encodeStd((src[2] % 16) * 4 + src[3] \div 64),
          encodeStd(src[3] % 64)>> \o EncodeToString(SubSeq(src, 4, Len(src)))

DecodeFailed == [ok |-> FALSE, bytes |-> <<>>]

\* The quanta of four characters once line breaks are gone.  Padding is only
\* accepted at the end of the input; the unused low bits of the last
\* character are not looked at.
RECURSIVE decodeQuanta(_)
decodeQuanta(t) ==
    IF Len(t) = 0 THEN [ok |-> TRUE, bytes |-> <<>>]
    ELSE IF Len(t) < 4 THEN DecodeFailed
    ELSE LET a == decodeMap(t[1])
             b == decodeMap(t[2])
             c == decodeMap(t[3])
             d == decodeMap(t[4])
         IN IF a < 0 \/ b < 0 THEN DecodeFailed
            ELSE IF t[3] = 61 THEN
                IF t[4] = 61 /\ Len(t) = 4
                THEN [ok |-> TRUE, bytes |-> <<a * 4 + b \div 16>>]
                ELSE DecodeFailed
            ELSE IF c < 0 THEN DecodeFailed
            ELSE IF t[4] = 61 THEN
                IF Len(t) = 4
                THEN [ok |-> TRUE,
                      bytes |-> <<a * 4 + b \div 16, (b % 16) * 16 + c \div 4>>]
                ELSE DecodeFailed
            ELSE IF d < 0 THEN DecodeFailed
            ELSE LET rest == decodeQuanta(SubSeq(t, 5, Len(t))) IN
                 IF rest.ok
                 THEN [ok |-> TRUE,
                       bytes |-> <<a * 4 + b \div 16, (b % 16) * 16 + c \div 4,
                                   (c % 4) * 64 + d>> \o rest.bytes]
                 ELSE DecodeFailed

isLineBreak(c) == c = 10 \/ c = 13
keepsByte(c) == ~isLineBreak(c)

\* base64.StdEncoding.DecodeString: \r and \n are skipped wherever they stand.
DecodeString(s) == decodeQuanta(SelectSeq(s, keepsByte))

\* ------------------------------------------------- the kubeconfig extractor
\* Lines a stored document is made of.
ApiVersionLine == <<97, 112, 105, 86, 101, 114, 115, 105, 111, 110, 58, 32, 118, 49, 10>>
KindLine == <<107, 105, 110, 100, 58, 32, 67, 111, 110, 102, 105, 103, 10>>
UsersLine == <<117, 115, 101, 114, 115, 58, 32, 91, 93, 10>>
Indent == <<32, 32>>
DocumentLines == {ApiVersionLine, KindLine, UsersLine, Indent}

RECURSIVE Concat(_)
Concat(lines) == IF lines = <<>> THEN <<>> ELSE Head(lines) \o Concat(Tail(lines))

\* Plain documents: every sequence of at most MaxLines lines.
Documents == {Concat(ls) : ls \in SeqsUpTo(DocumentLines, MaxLines)}

\* The kubeconfig of the extractor's tests, cut down to its two first lines.
validKubeconfig == ApiVersionLine \o KindLine

\* Text that happens to be well-formed base64 ("data"), text that is not
\* ("hello"), an encoding whose padding was cut off, a document encoded twice.
WordData == <<100, 97, 116, 97>>
WordHello == <<104, 101, 108, 108, 111>>
Unpadded == SubSeq(EncodeToString(validKubeconfig), 1,
                   Len(EncodeToString(validKubeconfig)) - 2)
EncodedTwice == EncodeToString(EncodeToString(validKubeconfig))

\* What the kubeconfig key of a secret can hold: a document, its encoding,
\* its encoding followed by a line break, and the odd values above.
Payloads ==
    Documents
    \cup {EncodeToString(d) : d \in Documents}
    \cup {EncodeToString(d) \o <<10>> : d \in Documents}
    \cup {WordData, WordHello, Unpadded, EncodedTwice}

\* ClusterDeployments as the extractor meets them: complete, and with each
\* step of the path spec.clusterMetadata.adminKubeconfigSecretRef.name cut.
NoClusterMetadataDocument(n) ==
    [metadata |-> [name |-> n, namespace |-> n],
     spec     |-> [powerState |-> "Running", installed |-> TRUE]]
NoSecretRefDocument(n) ==
    [metadata |-> [name |-> n, namespace |-> n],
     spec     |-> [clusterMetadata |-> [infraID |-> "infra"]]]
NoSecretNameDocument(n) ==
    [metadata |-> [name |-> n, namespace |-> n],
     spec     |-> [clusterMetadata |-> [adminKubeconfigSecretRef |-> EmptyObject]]]

ExtractDocuments(n) ==
    {RunningDocument(n), BareDocument(n), NoClusterMetadataDocument(n),
     NoSecretRefDocument(n), NoSecretNameDocument(n)}

ExtractGetAnswers(n) ==
    {[ok |-> TRUE, obj |-> d, err |-> NoError] : d \in ExtractDocuments(n)}
    \cup {[ok |-> FALSE, obj |-> NilObject, err |-> e] :
            e \in {NotFoundError(n), ForbiddenError(n)}}

\* Error texts of coreClient.Secrets(ns).Get.
SecretNotFoundError(name) == <<"secrets", name, "not", "found">>
SecretForbiddenError(name) == <<"secrets", name, "is", "forbidden">>

\* What coreClient.Secrets(ns).Get(ctx, name) can answer: the secret's Data
\* map, with or without the kubeconfig key, or an error.
SecretAnswers(name) ==
    {[ok |-> TRUE, data |-> [kubeconfig |-> p], err |-> NoError] : p \in Payloads}
    \cup {[ok |-> TRUE, data |-> [password |-> WordData], err |-> NoError],
          [ok |-> FALSE, data |-> EmptyObject, err |-> SecretNotFoundError(name)],
          [ok |-> FALSE, data |-> EmptyObject, err |-> SecretForbiddenError(name)]}

\* Mutant: the secret is rewritten instead of read.
SecretRequestUpdating(ns, name) ==
    [verb |-> "update", resource |-> "secrets", namespace |-> ns, name |-> name]

\* Mutant: the secret is looked for in the hive namespace.
SecretRequestInHiveNamespace(ns, name) ==
    [verb |-> "get", resource |-> "secrets", namespace |-> "hive", name |-> name]

\* Mutant: the secret is looked for under the cluster's name.
SecretRequestByClusterName(ns, name) ==
    [verb |-> "get", resource |-> "secrets", namespace |-> ns, name |-> ns]

SecretRequest(ns, name) ==
    [verb |-> "get", resource |-> "secrets", namespace |-> ns, name |-> name]

\* Mutant: a document without the reference falls back to a default name.
adminKubeconfigSecretRefDefaulting(n, answer) ==
    IF ~answer.ok
    THEN [ok |-> FALSE, name |-> "",
          err |-> <<"failed", "to", "get", "ClusterDeployment", n, ":">> \o answer.err
                    \o <<"(", "cluster", "not", "found", "or", "not", "managed",
                         "by", "Hive", ")">>]
    ELSE [ok |-> TRUE, name |-> "admin-kubeconfig", err |-> NoError]

\* part_003:58-83: the ClusterDeployment is fetched and the secret's name is
\* read from spec.clusterMetadata.adminKubeconfigSecretRef.name.
adminKubeconfigSecretRef(n, answer) ==
    IF ~answer.ok
    THEN [ok |-> FALSE, name |-> "",
          err |-> <<"failed", "to", "get", "ClusterDeployment", n, ":">> \o answer.err
                    \o <<"(", "cluster", "not", "found", "or", "not", "managed",
                         "by", "Hive", ")">>]
    ELSE IF ~Has(answer.obj, "spec")
    THEN [ok |-> FALSE, name |-> "",
          err |-> <<"ClusterDeployment", "spec", "not", "found">>]
    ELSE IF ~Has(answer.obj.spec, "clusterMetadata")
    THEN [ok |-> FALSE, name |-> "",
          err |-> <<"ClusterDeployment", "clusterMetadata", "not", "found">>]
    ELSE IF ~Has(answer.obj.spec.clusterMetadata, "adminKubeconfigSecretRef")
    THEN [ok |-> FALSE, name |-> "",
          err |-> <<"adminKubeconfigSecretRef", "not", "found", "in",
                    "ClusterDeployment">>]
    ELSE IF ~Has(answer.obj.spec.clusterMetadata.adminKubeconfigSecretRef, "name")
    THEN [ok |-> FALSE, name |-> "",
          err |-> <<"secret", "name", "not", "found", "in",
                    "adminKubeconfigSecretRef">>]
    ELSE [ok |-> TRUE,
          name |-> answer.obj.spec.clusterMetadata.adminKubeconfigSecretRef.name,
          err |-> NoError]

\* Mutant: nothing is ever taken for an encoding.
isBase64EncodedNever(data) == FALSE

\* part_003:145-156
isBase64Encoded(data) ==
    IF HasPrefix(TrimSpace(data), apiVersionMarker) THEN FALSE
    ELSE DecodeString(data).ok

\* Mutant: the decoder's output is used whether or not it failed.
decodeIfEncodedWithoutFallback(kubeconfigData) == DecodeString(kubeconfigData).bytes

\* part_003:100-110: the stored bytes, decoded when they are an encoding.
decodeIfEncoded(kubeconfigData) ==
    IF isBase64Encoded(kubeconfigData)
    THEN IF DecodeString(kubeconfigData).ok
         THEN DecodeString(kubeconfigData).bytes
         ELSE kubeconfigData
    ELSE kubeconfigData

\* Mutant: one marker is enough.
hasRequiredFieldsEither(kubeconfig) ==
    Contains(kubeconfig, apiVersionMarker) \/ Contains(kubeconfig, kindMarker)

\* part_003:113-114: the basic validation.
hasRequiredFields(kubeconfig) ==
    Contains(kubeconfig, apiVersionMarker) /\ Contains(kubeconfig, kindMarker)

\* part_003:85-118: the secret is read, its kubeconfig key decoded and checked.
kubeconfigFromSecret(n, name, answer) ==
    IF ~answer.ok
    THEN [kubeconfig |-> <<>>,
          err |-> <<"failed", "to", "get", "admin", "kubeconfig", "secret",
                    n, "/", name, ":">> \o answer.err]
    ELSE IF ~Has(answer.data, "kubeconfig")
    THEN [kubeconfig |-> <<>>,
          err |-> <<"kubeconfig", "key", "not", "found", "in", "secret",
                    n, "/", name>>]
    ELSE IF Len(answer.data.kubeconfig) = 0
    THEN [kubeconfig |-> <<>>,
          err |-> <<"kubeconfig", "data", "is", "empty", "in", "secret",
                    n, "/", name>>]
    ELSE IF ~hasRequiredFields(decodeIfEncoded(answer.data.kubeconfig))
    THEN [kubeconfig |-> <<>>,
          err |-> <<"kubeconfig", "validation", "failed", ":", "missing",
                    "required", "YAML", "fields">>]
    ELSE [kubeconfig |-> decodeIfEncoded(answer.data.kubeconfig), err |-> NoError]

\* ------------------------------------------------- the output file
\* Permission bits are sets: u, g, o for owner, group, other; r, w, x.
OwnerOnlyReadWrite == {"ur", "uw"}                                \* 0600
DirectoryPerm == {"ur", "uw", "ux", "gr", "gx", "or", "ox"}       \* 0755
GroupAndOther == {"gr", "gw", "gx", "or", "ow", "ox"}
Perm0644 == {"ur", "uw", "gr", "or"}
Perm0400 == {"ur"}
Umask022 == {"gw", "ow"}
Umask077 == GroupAndOther

OldData == <<111, 108, 100>>    \* "old"

\* What filepath.Dir(outputPath) and outputPath are before the call: parent is
\* "dir", "absent" or "file" (a regular file stands where the directory should
\* be); kind is what stands at outputPath itself.
OutputFiles ==
    {[parent |-> p, kind |-> "absent", mode |-> {}, data |-> <<>>, umask |-> u] :
        p \in {"absent", "dir"}, u \in {Umask022, Umask077}}
    \cup {[parent |-> "file", kind |-> "absent", mode |-> {}, data |-> <<>>,
           umask |-> Umask022]}
    \cup {[parent |-> "dir", kind |-> "file", mode |-> m, data |-> OldData,
           umask |-> Umask022] : m \in {OwnerOnlyReadWrite, Perm0644, Perm0400}}
    \cup {[parent |-> "dir", kind |-> "dir", mode |-> DirectoryPerm, data |-> <<>>,
           umask |-> Umask022]}

\* os.MkdirAll(dir, 0755): nothing to do when the directory is there, an error
\* when a file is in its place.
MkdirAll(file) ==
    IF file.parent = "file" THEN [ok |-> FALSE, file |-> file]
    ELSE [ok |-> TRUE, file |-> [file EXCEPT !.parent = "dir"]]

\* os.WriteFile(name, data, perm) is OpenFile(name, O_WRONLY|O_CREATE|O_TRUNC,
\* perm), Write, Close: perm (less the umask) is given to a file that is
\* created; a file that exists is truncated and keeps its mode.
WriteFile(file, data, perm) ==
    IF file.kind = "dir" \/ (file.kind = "file" /\ "uw" \notin file.mode)
    THEN [ok |-> FALSE, file |-> file]
    ELSE IF file.kind = "absent"
    THEN [ok |-> TRUE,
          file |-> [file EXCEPT !.kind = "file", !.data = data,
                                !.mode = perm \ file.umask]]
    ELSE [ok |-> TRUE, file |-> [file EXCEPT !.data = data]]

\* part_003:128-138: what ExtractToFile does once Extract has succeeded.
writeKubeconfig(file, kubeconfig) ==
    IF ~MkdirAll(file).ok
    THEN [file |-> file,
          err |-> <<"failed", "to", "create", "directory">>]
    ELSE IF ~WriteFile(MkdirAll(file).file, kubeconfig, OwnerOnlyReadWrite).ok
    THEN [file |-> MkdirAll(file).file,
          err |-> <<"failed", "to", "write", "kubeconfig", "to", "outputPath">>]
    ELSE [file |-> WriteFile(MkdirAll(file).file, kubeconfig, OwnerOnlyReadWrite).file,
          err |-> NoError]

\* Mutant: the parent directory is made before Extract's error is looked at.
extractToFileMakingDirectoryFirst(file, ex) ==
    IF ex.err # NoError THEN [file |-> MkdirAll(file).file, err |-> ex.err]
    ELSE writeKubeconfig(file, ex.kubeconfig)

\* part_003:122-141: ExtractToFile given what Extract returned: Extract's
\* error is returned before anything touches the file system.
extractToFile(file, ex) ==
    IF ex.err # NoError THEN [file |-> file, err |-> ex.err]
    ELSE writeKubeconfig(file, ex.kubeconfig)

\* ------------------------------------------------- SpecExtract
\* One call of Extract or of ExtractToFile.
ExtractNames == {ClusterNames[1], ClusterNames[2]}

InitExtract ==
    /\ pc = "extract"
    /\ cluster = NoCluster
    /\ info = NoInfo
    /\ clusters = <<>>
    /\ filter = [Status |-> ""]
    /\ filtered = <<>>
    /\ managedClusters = <<>>
    /\ err = NoError
    /\ fetched = <<>>
    /\ combined = <<>>
    /\ result = NoResult
    /\ requests = <<>>
    /\ getResult = NoGot
    /\ clusterName \in ExtractNames
    /\ operation \in {"Extract", "ExtractToFile"}
    /\ secretName = ""
    /\ extracted = NoExtracted
    /\ outputFile \in (IF operation = "ExtractToFile" THEN OutputFiles ELSE {NoFile})
    /\ written = NoError
    /\ IdleOutput

\* part_003:50-83: the ClusterDeployment is fetched, the reference followed.
ExtractGetClusterDeployment ==
    /\ pc = "extract"
    /\ requests' = Append(requests, GetRequest(clusterName))
    /\ \E answer \in ExtractGetAnswers(clusterName) :
         LET ref == adminKubeconfigSecretRef(clusterName, answer) IN
         /\ fetched' = Append(fetched, answer)
         /\ secretName' = ref.name
         /\ extracted' = [kubeconfig |-> <<>>, err |-> ref.err]
         /\ pc' = IF ref.ok THEN "secret" ELSE "extracted"
    /\ UNCHANGED <<cluster, info, clusters, filter, filtered, managedClusters,
                   err, combined, result>>
    /\ UNCHANGED <<getVars, operation, outputFile, written, outputVars>>

\* part_003:85-118: the secret is fetched, its value decoded and validated.
ExtractGetSecret ==
    /\ pc = "secret"
    /\ requests' = Append(requests, SecretRequest(clusterName, secretName))
    /\ \E answer \in SecretAnswers(secretName) :
         /\ fetched' = Append(fetched, answer)
         /\ extracted' = kubeconfigFromSecret(clusterName, secretName, answer)
    /\ pc' = "extracted"
    /\ UNCHANGED <<cluster, info, clusters, filter, filtered, managedClusters,
                   err, combined, result>>
    /\ UNCHANGED <<getVars, operation, secretName, outputFile, written, outputVars>>

\* part_003:122-141: ExtractToFile after its call of Extract.
ExtractToFileWrite ==
    /\ pc = "extracted"
    /\ operation = "ExtractToFile"
    /\ written' = extractToFile(outputFile, extracted).err
    /\ outputFile' = extractToFile(outputFile, extracted).file
    /\ pc' = "returned"
    /\ UNCHANGED <<cluster, info, clusters, filter, filtered, managedClusters,
                   err, fetched, combined, result, requests>>
    /\ UNCHANGED <<getVars, operation, secretName, extracted, outputVars>>

NextExtract == ExtractGetClusterDeployment \/ ExtractGetSecret \/ ExtractToFileWrite

SpecExtract == InitExtract /\ [][NextExtract]_vars

\* ------------------------------------------------- claims on Extract
\* Extract has returned.
Extracted == pc \in {"extracted", "returned"}

\* Extract got the secret, and the secret carries the kubeconfig key.
SecretRead ==
    /\ Extracted
    /\ Len(fetched) = 2
    /\ fetched[2].ok
    /\ Has(fetched[2].data, "kubeconfig")

\* The bytes stored under the kubeconfig key.
Stored == fetched[2].data.kubeconfig

\* A valid structured document: both markers occur in it.
Valid(x) == Contains(x, apiVersionMarker) /\ Contains(x, kindMarker)

\* C11: when the stored value is itself a valid document (both markers occur
\* in it, no encoding on top), Extract returns exactly the stored bytes and no
\* error, whether or not the value begins with the apiVersion: marker; the
\* value does not decode, so the stored bytes are the ones used.
C11_PlainDocumentUnchanged ==
    (SecretRead /\ Valid(Stored)) =>
        /\ extracted = [kubeconfig |-> Stored, err |-> NoError]
        /\ ~DecodeString(Stored).ok

\* The case of C11: a document that begins with kind:, returned as stored.
C11_Witness ==
    /\ SecretRead
    /\ Stored = KindLine \o ApiVersionLine
    /\ ~HasPrefix(TrimSpace(Stored), apiVersionMarker)
    /\ extracted = [kubeconfig |-> KindLine \o ApiVersionLine, err |-> NoError]

\* Every valid document x with its base64 encoding.
EncodedValidDocuments ==
    {[x |-> d, encoded |-> EncodeToString(d)] : d \in {v \in Documents : Valid(v)}}

\* C12: for every valid document x, when the stored value is the base64
\* encoding of x, Extract returns exactly x and no error.
C12_EncodedDocumentDecoded ==
    \A p \in EncodedValidDocuments :
        (SecretRead /\ Stored = p.encoded) =>
            extracted = [kubeconfig |-> p.x, err |-> NoError]

\* The case of C12: the encoding of the tests' kubeconfig was stored and the
\* kubeconfig itself came back.
C12_Witness ==
    /\ SecretRead
    /\ Stored = EncodeToString(validKubeconfig)
    /\ Stored # validKubeconfig
    /\ extracted = [kubeconfig |-> validKubeconfig, err |-> NoError]

\* The fetched ClusterDeployment carries spec.clusterMetadata.adminKubeconfigSecretRef.
CarriesSecretRef(obj) ==
    /\ Has(obj, "spec")
    /\ Has(obj.spec, "clusterMetadata")
    /\ Has(obj.spec.clusterMetadata, "adminKubeconfigSecretRef")

\* The five failures of C13.
RecordMissing ==
    Len(fetched) >= 1 /\ ~fetched[1].ok /\ fetched[1].err = NotFoundError(clusterName)
ReferenceMissing ==
    Len(fetched) >= 1 /\ fetched[1].ok /\ ~CarriesSecretRef(fetched[1].obj)
SecretMissing ==
    Len(fetched) = 2 /\ ~fetched[2].ok /\ fetched[2].err = SecretNotFoundError(secretName)
KeyMissing ==
    Len(fetched) = 2 /\ fetched[2].ok /\ ~Has(fetched[2].data, "kubeconfig")
ValueEmpty == SecretRead /\ Stored = <<>>

\* C13: Extract returns an error and no bytes when the ClusterDeployment does
\* not exist, when it carries no secret reference, when the referenced secret
\* does not exist, when the secret has no kubeconfig key, and when the
\* kubeconfig value is empty.
C13_FailuresReturnError ==
    (Extracted /\ (RecordMissing \/ ReferenceMissing \/ SecretMissing
                   \/ KeyMissing \/ ValueEmpty)) =>
        (extracted.err # NoError /\ extracted.kubeconfig = <<>>)

\* The case of C13: a ClusterDeployment without the reference; Extract failed
\* without asking for any secret.
C13_Witness ==
    /\ Extracted
    /\ ReferenceMissing
    /\ Len(requests) = 1
    /\ extracted.err # NoError
    /\ extracted.kubeconfig = <<>>

\* C14: whatever Extract returns without error contains both markers and is
\* the stored value after decoding; when the decoded value lacks a marker
\* Extract returns an error and no bytes.
C14_OnlyValidatedPayloads ==
    /\ (Extracted /\ extracted.err = NoError) =>
           (SecretRead /\ Valid(extracted.kubeconfig)
            /\ extracted.kubeconfig = decodeIfEncoded(Stored))
    /\ (SecretRead /\ ~Valid(decodeIfEncoded(Stored))) =>
           (extracted.err # NoError /\ extracted.kubeconfig = <<>>)

\* The case of C14: a stored value with one of the two markers is refused.
C14_Witness ==
    /\ SecretRead
    /\ Stored = ApiVersionLine \o UsersLine
    /\ extracted.err = <<"kubeconfig", "validation", "failed", ":", "missing",
                         "required", "YAML", "fields">>
    /\ extracted.kubeconfig = <<>>

\* ------------------------------------------------- claims on ExtractToFile
\* ExtractToFile returned nil.
FileWritten == pc = "returned" /\ operation = "ExtractToFile" /\ written = NoError

\* C15: after every successful ExtractToFile, whatever stood at the output
\* path before the call, the file there grants nothing to group or other and
\* holds exactly the bytes Extract returns for the same inputs.
C15_OwnerOnlyAndIdentical ==
    FileWritten =>
        /\ outputFile.kind = "file"
        /\ outputFile.mode \cap GroupAndOther = {}
        /\ outputFile.data = extracted.kubeconfig

\* ------------------------------------------------- SpecGet: one Get call
\* A key that may be absent: the empty object, or the key with one of vs.
Optional(k, vs) == {EmptyObject} \cup {(k :> v) : v \in vs}

\* Power states a section can carry; the empty string is a string.
PowerStates == {"", "Running", "Hibernating"}

LabelSets ==
    {(PlatformLabel :> "aws") @@ (RegionLabel :> "us-east-1"),
     (PlatformLabel :> "gcp"),
     EmptyObject}

MetadataSections(n) ==
    {a @@ b @@ c : a \in Optional("name", {n}), b \in Optional("namespace", {n}),
                   c \in Optional("labels", LabelSets)}

ClusterMetadataSections ==
    {EmptyObject,
     [adminKubeconfigSecretRef |-> EmptyObject],
     [adminKubeconfigSecretRef |-> [name |-> "admin-kubeconfig"]]}

SpecSections ==
    {a @@ b @@ c : a \in Optional("powerState", PowerStates),
                   b \in Optional("installed", {TRUE}),
                   c \in Optional("clusterMetadata", ClusterMetadataSections)}

StatusSections ==
    {a @@ b @@ c : a \in Optional("powerState", PowerStates),
                   b \in Optional("apiURL", {"https://api.example.com:6443"}),
                   c \in Optional("installVersion", {"4.20.6"})}

\* Every document made of these sections, each of them present or not.
GetDocuments(n) ==
    {a @@ b @@ c : a \in Optional("metadata", MetadataSections(n)),
                   b \in Optional("spec", SpecSections),
                   c \in Optional("status", StatusSections)}

GetDocumentAnswers(n) ==
    {[ok |-> TRUE, obj |-> d, err |-> NoError] : d \in GetDocuments(n)}
    \cup {[ok |-> FALSE, obj |-> NilObject, err |-> e] : e \in GetErrors(n)}

InitGet ==
    /\ pc = "get"
    /\ cluster = NoCluster
    /\ info = NoInfo
    /\ clusters = <<>>
    /\ filter = [Status |-> ""]
    /\ filtered = <<>>
    /\ managedClusters = <<>>
    /\ err = NoError
    /\ fetched = <<>>
    /\ combined = <<>>
    /\ result = NoResult
    /\ requests = <<>>
    /\ clusterName \in ExtractNames
    /\ getResult = NoGot
    /\ IdleExtract /\ IdleOutput

\* clusterdeployment.go Get: the fetch and the parse of what came back.
GetFetch ==
    /\ pc = "get"
    /\ requests' = Append(requests, GetRequest(clusterName))
    /\ \E answer \in GetDocumentAnswers(clusterName) :
         /\ fetched' = Append(fetched, answer)
         /\ getResult' = Get(clusterName, answer)
    /\ pc' = "got"
    /\ UNCHANGED <<cluster, info, clusters, filter, filtered, managedClusters,
                   err, combined, result>>
    /\ UNCHANGED <<clusterName, extractVars, outputVars>>

NextGet == GetFetch

SpecGet == InitGet /\ [][NextGet]_vars

\* ------------------------------------------------- claims on Get
\* Get has returned for a fetch that brought a document back.
Parsed == pc = "got" /\ fetched[1].ok
Doc == fetched[1].obj
DocMetadata == Section(Doc, "metadata")
DocLabels == Section(DocMetadata, "labels")
DocSpec == Section(Doc, "spec")
DocStatus == Section(Doc, "status")
DocSecretRef == Section(Section(DocSpec, "clusterMetadata"), "adminKubeconfigSecretRef")

\* The power state the two sections designate: the status's when the status
\* carries one, otherwise the spec's, otherwise none.
DesignatedPowerState(none) ==
    IF Has(DocStatus, "powerState") THEN DocStatus.powerState
    ELSE IF Has(DocSpec, "powerState") THEN DocSpec.powerState
    ELSE none

\* C19 as stated: the PowerState Get returns is the status section's
\* powerState whenever the status carries one, otherwise the spec section's
\* when the spec carries one, and "Unknown" only when neither carries one.
C19_StatusElseSpecElseUnknown ==
    (Parsed /\ getResult.ok) =>
        getResult.info.PowerState = DesignatedPowerState("Unknown")

\* C19 amended: the status section's powerState is taken when the status
\* carries one, otherwise the spec section's; when the value so taken is the
\* empty string, or neither section carries one, PowerState is "Unknown".
C19_StatusElseSpecEmptyIsUnknown ==
    (Parsed /\ getResult.ok) =>
        getResult.info.PowerState =
            IF DesignatedPowerState("") = "" THEN "Unknown"
            ELSE DesignatedPowerState("")

\* The case of C19: both sections carry a power state, they differ, and the
\* status's was returned.
C19_Witness ==
    /\ Parsed
    /\ getResult.ok
    /\ Has(DocSpec, "powerState")
    /\ DocSpec.powerState = "Running"
    /\ Has(DocStatus, "powerState")
    /\ DocStatus.powerState = "Hibernating"
    /\ getResult.info.PowerState = "Hibernating"

\* The fields of the result whose source is absent from the document hold
\* the zero value; powerState stands for the PowerState an absence leaves.
AbsentFieldsAreZero(powerState) ==
    /\ ~Has(DocMetadata, "name") => getResult.info.Name = ""
    /\ ~Has(DocMetadata, "namespace") => getResult.info.Namespace = ""
    /\ ~Has(DocLabels, PlatformLabel) => getResult.info.Platform = ""
    /\ ~Has(DocLabels, RegionLabel) => getResult.info.Region = ""
    /\ ~Has(DocSpec, "installed") => getResult.info.Installed = FALSE
    /\ ~Has(DocSecretRef, "name") =>
           (getResult.info.KubeconfigSecretName = ""
            /\ getResult.info.KubeconfigSecretNS = "")
    /\ ~Has(DocStatus, "apiURL") => getResult.info.APIUrl = ""
    /\ ~Has(DocStatus, "webConsoleURL") => getResult.info.ConsoleURL = ""
    /\ ~Has(DocStatus, "installVersion") => getResult.info.Version = ""
    /\ (~Has(DocSpec, "powerState") /\ ~Has(DocStatus, "powerState")) =>
           getResult.info.PowerState = powerState

\* C20 as stated: whatever sections and fields of a fetched document are
\* absent (metadata, labels, spec, status and their members), Get succeeds
\* and every absent field is left at its zero value.
C20_NoFieldIsRequired ==
    Parsed => (getResult.ok /\ getResult.err = NoError /\ AbsentFieldsAreZero(""))

\* C20 amended: Get fails on a fetched document exactly when the document
\* has no metadata section; otherwise, whatever else is absent, Get succeeds
\* and every absent field is left at its zero value, except PowerState, which
\* is "Unknown" when neither spec nor status carries a power state.
C20_OnlyMetadataIsRequired ==
    Parsed =>
        /\ getResult.ok <=> Has(Doc, "metadata")
        /\ getResult.ok => (getResult.err = NoError /\ AbsentFieldsAreZero("Unknown"))
        /\ ~getResult.ok =>
               getResult.err = <<"failed", "to", "parse", "ClusterDeployment",
                                 clusterName, ":", "metadata", "not", "found",
                                 "or", "invalid">>

\* The case of C20: a document that is an empty metadata section and nothing
\* else parses into the zero value.
C20_Witness ==
    /\ Parsed
    /\ Doc = [metadata |-> EmptyObject]
    /\ getResult.ok
    /\ getResult.info = [ZeroClusterDeploymentInfo EXCEPT !.PowerState = "Unknown"]

\* ------------------------------------------------- classification of failed fetches
\* Entry i carries the "N/A" sentinels.
NotAvailable(i) ==
    /\ Entries[i].PowerState = "N/A"
    /\ Entries[i].Platform = "N/A"
    /\ Entries[i].Region = "N/A"
    /\ Entries[i].Version = "N/A"

\* C18: ListCombined gives an entry the "N/A" sentinels if and only if the
\* ClusterDeployment of that name does not exist; a denied request, an
\* unreachable hub and a record that does not parse never give "N/A".
C18_NotAvailableIffAbsent ==
    \A i \in 1..Len(fetched) :
        /\ NotAvailable(i) <=> Absent(i)
        /\ OtherFailure(i) => Entries[i].PowerState # "N/A"

\* ------------------------------------------------- SpecCore: any operation of the core
\* One call of any of ListCombined (which calls List and Get), Get, Extract
\* and ExtractToFile.
InitCore == Init \/ InitGet \/ InitExtract

NextCore == Next \/ NextGet \/ NextExtract

SpecCore == InitCore /\ [][NextCore]_vars

\* The verbs that change what the remote API stores.
WriteVerbs == {"create", "update", "patch", "delete", "deletecollection"}

\* C16: no operation of the core issues a create, update, patch or delete:
\* every request any of them sends is a get or a list, on managedclusters,
\* clusterdeployments or secrets.
C16_ReadOnly ==
    \A i \in 1..Len(requests) :
        /\ requests[i].verb \notin WriteVerbs
        /\ requests[i].verb \in {"get", "list"}
        /\ requests[i].resource \in {"managedclusters", "clusterdeployments", "secrets"}

\* The case of C16: ExtractToFile wrote its file, and all it sent to the hub
\* were the two reads.
C16_Witness ==
    /\ FileWritten
    /\ Len(requests) = 2
    /\ requests[1] = GetRequest(clusterName)
    /\ requests[2] = SecretRequest(clusterName, secretName)

\* ------------------------------------------------- table output
\* Longest slice handed to WriteCombined.
MaxRows == 2

\* What is written is a sequence of lines, a line a sequence of cells, a cell
\* its text and the number of padding characters after it.  Field values hold
\* neither tabs nor line breaks, so one Fprintf is one line of \t-cells.

\* output.go:52, 112 and 110.
tableHeader == <<"NAME", "STATUS", "AVAILABLE">>
wideHeader == <<"NAME", "STATUS", "POWER", "PLATFORM", "REGION", "VERSION", "AVAILABLE">>

\* output.go:56-60: the row of one ManagedClusterInfo.
tableRow(c) == <<c.Name, c.Status, c.Available>>

\* Mutant: the sentinel of a missing record is shown as an empty cell.
combinedRowBlankingSentinels(c, isWide) ==
    LET shown(v) == IF v = "N/A" THEN "" ELSE v IN
    IF isWide
    THEN <<c.Name, c.Status, shown(c.PowerState), shown(c.Platform),
           shown(c.Region), shown(c.Version), c.Available>>
    ELSE <<c.Name, c.Status, c.Available>>

\* output.go:117-133: the row of one CombinedClusterInfo.
combinedRow(c, isWide) ==
    IF isWide
    THEN <<c.Name, c.Status, c.PowerState, c.Platform, c.Region, c.Version,
           c.Available>>
    ELSE <<c.Name, c.Status, c.Available>>

MaxOf(S) == CHOOSE m \in S : \A x \in S : x <= m

\* text/tabwriter with minwidth 0, tabwidth 0, padding 3, padchar ' ', flags 0:
\* a tab-terminated cell is padded to the widest cell of its column plus the
\* padding; the text after the last tab of a line is written as it is.
tabwriter(rows) ==
    [r \in 1..Len(rows) |->
        [c \in 1..Len(rows[r]) |->
            [text |-> rows[r][c],
             pad  |-> IF c = Len(rows[r]) THEN 0
                      ELSE MaxOf({Len(rows[k][c]) : k \in 1..Len(rows)}) + 3
                           - Len(rows[r][c])]]]

\* output.go:47-65
writeTable(cs) ==
    tabwriter(<<tableHeader>> \o [k \in 1..Len(cs) |-> tableRow(cs[k])])

\* output.go:104-138
writeCombinedTable(cs, isWide) ==
    tabwriter(<<IF isWide THEN wideHeader ELSE tableHeader>>
              \o [k \in 1..Len(cs) |-> combinedRow(cs[k], isWide)])

\* Combined entries as ListCombined makes them: the record found complete,
\* found bare, missing ("N/A"), not fetched ("Unknown").
CombinedEntriesOf(n) ==
    {combinedEntry(clusterInfo([Name |-> n, Taints |-> <<>>,
                                Conditions |-> <<[Type |-> ManagedClusterConditionAvailable,
                                                  Status |-> ConditionTrue,
                                                  Message |-> "m1"]>>]),
                   Get(n, a)) :
        a \in {[ok |-> TRUE, obj |-> RunningDocument(n), err |-> NoError],
               [ok |-> TRUE, obj |-> BareDocument(n), err |-> NoError],
               [ok |-> FALSE, obj |-> NilObject, err |-> NotFoundError(n)],
               [ok |-> FALSE, obj |-> NilObject, err |-> ConnectionError]}}
CombinedEntries == CombinedEntriesOf(ClusterNames[1]) \cup CombinedEntriesOf(ClusterNames[2])

\* ------------------------------------------------- SpecOutput
\* One call of Write or of WriteCombined on a table-format OutputWriter.
InitOutput ==
    /\ pc \in {"write", "writeCombined"}
    /\ cluster = NoCluster
    /\ info = NoInfo
    /\ clusters = <<>>
    /\ filter = [Status |-> ""]
    /\ filtered \in (IF pc = "write" THEN SeqsUpTo(FilterEntries, MaxFilterLen)
                     ELSE {<<>>})
    /\ managedClusters = <<>>
    /\ err = NoError
    /\ fetched = <<>>
    /\ combined = <<>>
    /\ result \in (IF pc = "writeCombined"
                   THEN {[clusters |-> cs, err |-> NoError] :
                            cs \in SeqsUpTo(CombinedEntries, MaxRows)}
                   ELSE {NoResult})
    /\ requests = <<>>
    /\ IdleGet /\ IdleExtract
    /\ wide \in (IF pc = "writeCombined" THEN BOOLEAN ELSE {FALSE})
    /\ output = <<>>

\* output.go:35-38: Write on what main.go:196-207 filtered.
Write ==
    /\ pc = "write"
    /\ output' = writeTable(filtered)
    /\ pc' = "written"
    /\ UNCHANGED <<cluster, info, clusters, filter, filtered, managedClusters,
                   err, fetched, combined, result, requests>>
    /\ UNCHANGED <<getVars, extractVars, wide>>

\* output.go:92-95: WriteCombined on what ListCombined returned.
WriteCombined ==
    /\ pc = "writeCombined"
    /\ output' = writeCombinedTable(result.clusters, wide)
    /\ pc' = "writtenCombined"
    /\ UNCHANGED <<cluster, info, clusters, filter, filtered, managedClusters,
                   err, fetched, combined, result, requests>>
    /\ UNCHANGED <<getVars, extractVars, wide>>

NextOutput == Write \/ WriteCombined

SpecOutput == InitOutput /\ [][NextOutput]_vars

\* The texts of line k of the output.
Texts(k) == [c \in 1..Len(output[k]) |-> output[k][c].text]

\* C17: in table format Write and WriteCombined emit one header line, then
\* exactly one row per input record in input order, each row showing the
\* record's field values as they are, sentinels included; an empty input
\* gives the header line alone.
C17_HeaderThenOneRowPerRecord ==
    /\ pc = "written" =>
           /\ Len(output) = 1 + Len(filtered)
           /\ Texts(1) = <<"NAME", "STATUS", "AVAILABLE">>
           /\ \A k \in 1..Len(filtered) :
                  Texts(k + 1) = <<filtered[k].Name, filtered[k].Status,
                                   filtered[k].Available>>
    /\ (pc = "writtenCombined" /\ wide) =>
           /\ Len(output) = 1 + Len(result.clusters)
           /\ Texts(1) = <<"NAME", "STATUS", "POWER", "PLATFORM", "REGION",
                           "VERSION", "AVAILABLE">>
           /\ \A k \in 1..Len(result.clusters) :
                  LET c == result.clusters[k] IN
                  Texts(k + 1) = <<c.Name, c.Status, c.PowerState, c.Platform,
                                   c.Region, c.Version, c.Available>>
    /\ (pc = "writtenCombined" /\ ~wide) =>
           /\ Len(output) = 1 + Len(result.clusters)
           /\ Texts(1) = <<"NAME", "STATUS", "AVAILABLE">>
           /\ \A k \in 1..Len(result.clusters) :
                  LET c == result.clusters[k] IN
                  Texts(k + 1) = <<c.Name, c.Status, c.Available>>

\* The case of C17: a wide table of two rows, the first with the "N/A"
\* sentinels and the second with "Unknown", shown as they are.
C17_Witness ==
    /\ pc = "writtenCombined"
    /\ wide
    /\ Len(output) = 3
    /\ Texts(2) = <<"c1", "Ready", "N/A", "N/A", "N/A", "N/A", "True">>
    /\ Texts(3) = <<"c2", "Ready", "Unknown", "Unknown", "Unknown", "Unknown", "True">>

\* ------------------------------------------------- SpecList: one List call
\* Items of the list response: with or without the unreachable taint, with
\* no condition, one Available condition of any status, or two of them; and
\* an item that FromUnstructured cannot convert.
ListConditions ==
    {<<>>}
    \cup {<<[Type |-> ManagedClusterConditionAvailable, Status |-> v, Message |-> "m1"]>> :
            v \in ConditionValues}
    \cup {<<[Type |-> ManagedClusterConditionAvailable, Status |-> ConditionFalse,
             Message |-> "m1"],
            [Type |-> ManagedClusterConditionAvailable, Status |-> ConditionTrue,
             Message |-> "m2"]>>}

ListItems(n) ==
    [Name : {n}, Taints : FleetTaints, Conditions : ListConditions, WellTyped : {TRUE}]
    \cup {[Name |-> n, Taints |-> <<>>, Conditions |-> <<>>, WellTyped |-> FALSE]}

\* What the list query can answer: a response of k items, item i being
\* named ClusterNames[i], or an error.
ListQueryAnswers ==
    LET fleets(k) == {f \in [1..k -> UNION {ListItems(ClusterNames[i]) : i \in 1..k}] :
                          \A i \in 1..k : f[i].Name = ClusterNames[i]} IN
    {[ok |-> TRUE, items |-> f, err |-> NoError] :
        f \in UNION {fleets(k) : k \in 0..MaxClusters}}
    \cup {[ok |-> FALSE, items |-> <<>>, err |-> e] : e \in ListErrors}

InitList ==
    /\ pc = "list"
    /\ cluster = NoCluster
    /\ info = NoInfo
    /\ clusters = <<>>
    /\ filter = [Status |-> ""]
    /\ filtered = <<>>
    /\ managedClusters = <<>>
    /\ err = NoError
    /\ fetched = <<>>
    /\ combined = <<>>
    /\ result = NoResult
    /\ requests = <<>>
    /\ IdleGet /\ IdleExtract /\ IdleOutput

\* managedclusters.go:39-76: the query, the conversion loop, the return.
ListQuery ==
    /\ pc = "list"
    /\ requests' = Append(requests, ListRequest)
    /\ \E answer \in ListQueryAnswers :
         /\ fetched' = Append(fetched, answer)
         /\ result' = List(answer)
    /\ pc' = "listed"
    /\ UNCHANGED <<cluster, info, clusters, filter, filtered, managedClusters,
                   err, combined>>
    /\ UNCHANGED <<getVars, extractVars, outputVars>>

NextList == ListQuery

SpecList == InitList /\ [][NextList]_vars

\* ------------------------------------------------- claims on List
\* List has returned; what the query answered.
Listed == pc = "listed"
Queried == fetched[1]

\* List returned one entry per item of the response, in the response's order.
OneEntryPerItem ==
    /\ result.err = NoError
    /\ Len(result.clusters) = Len(Queried.items)
    /\ \A i \in 1..Len(Queried.items) : result.clusters[i].Name = Queried.items[i].Name

\* Every item of the response converts to a ManagedCluster.
AllConvert == \A i \in 1..Len(Queried.items) : Queried.items[i].WellTyped

\* C21 as stated: List fails only if the query fails; whenever the query
\* succeeds with N items List succeeds with exactly N entries in the items'
\* order, however an item is shaped.
C21_FailsOnlyWithQuery ==
    Listed =>
        /\ Queried.ok => OneEntryPerItem
        /\ result.err # NoError => ~Queried.ok

\* C21 amended: List fails when the query fails and when an item of the
\* response does not convert to a ManagedCluster, and then returns no entry;
\* whenever the query succeeds and all N items convert, List succeeds with
\* exactly N entries in the items' order.
C21_FailsWithQueryOrConversion ==
    Listed =>
        /\ (Queried.ok /\ AllConvert) => OneEntryPerItem
        /\ (~Queried.ok \/ ~AllConvert) =>
               (result.err # NoError /\ result.clusters = <<>>)
        /\ ~Queried.ok =>
               result.err = <<"failed", "to", "list", "managed", "clusters", ":">>
                                \o Queried.err

\* The case of C21: two items, both convertible, two entries in their order.
C21_Witness ==
    /\ Listed
    /\ Queried.ok
    /\ Len(Queried.items) = 2
    /\ AllConvert
    /\ result.err = NoError
    /\ Len(result.clusters) = 2
    /\ result.clusters[1].Name = ClusterNames[1]
    /\ result.clusters[2].Name = ClusterNames[2]

\* ------------------------------------------------- duplicate Available conditions
\* The number of conditions of the Available type.
AvailableCount(c) ==
    Cardinality({i \in 1..Len(c.Conditions) :
                    c.Conditions[i].Type = ManagedClusterConditionAvailable})

\* The status one condition value stands for.
StatusFor(v) ==
    IF v = ConditionTrue THEN StatusReady
    ELSE IF v = ConditionFalse THEN StatusNotReady
    ELSE StatusUnknown

\* C22: for a cluster without the unreachable taint that carries several
\* Available conditions, the status is that of the first of them alone,
\* whatever status value the first one holds; later ones have no influence.
C22_FirstAvailableAlone ==
    (pc = "appended" /\ Untainted(cluster) /\ AvailableCount(cluster) >= 2) =>
        info.Status = StatusFor(cluster.Conditions[FirstAvailable(cluster)].Status)

\* C28: for an entry of List whose cluster has no unreachable taint, Status
\* is Ready exactly when Available is "True", NotReady exactly when Available
\* is "False", and Unknown otherwise; without an Available condition
\* Available is "Unknown" and Message is empty.
C28_StatusMatchesAvailable ==
    (pc = "appended" /\ Untainted(cluster)) =>
        /\ info.Status = StatusReady <=> info.Available = "True"
        /\ info.Status = StatusNotReady <=> info.Available = "False"
        /\ info.Status = StatusUnknown <=> info.Available \notin {"True", "False"}
        /\ FirstAvailable(cluster) = 0 =>
               (info.Available = "Unknown" /\ info.Message = "")

\* ------------------------------------------------- the order of remote requests
\* ListCombined runs on one goroutine and every remote call is synchronous: a
\* step that is enabled is eventually taken.
FairSpec == Spec /\ WF_vars(Next)

\* The requests sent so far are the list query followed by one targeted fetch
\* per cluster handled so far, in list order, each in the namespace named
\* like the cluster; the outcome of every fetch sent has been recorded.
OneListThenFetchesInOrder ==
    /\ pc = "start" => requests = <<>>
    /\ pc # "start" =>
           /\ Len(requests) = 1 + Len(fetched)
           /\ requests[1] = [verb |-> "list", resource |-> "managedclusters",
                             namespace |-> "", name |-> ""]
           /\ Len(fetched) <= Len(managedClusters)
           /\ \A i \in 1..Len(fetched) :
                  requests[i + 1] = [verb |-> "get", resource |-> "clusterdeployments",
                                     namespace |-> managedClusters[i].Name,
                                     name |-> managedClusters[i].Name]
           /\ Len(Entries) = Len(fetched)
    /\ (pc = "returned" /\ result.err = NoError) =>
           Len(requests) = 1 + Len(managedClusters)

\* C23: a successful ListCombined over N clusters sends one list query, then
\* N targeted fetches, one per cluster in list order with namespace = name =
\* the cluster's name, none repeated, each after the outcome of the one before
\* was recorded; and the call returns after the N-th.
C23_OneListThenNFetches ==
    []OneListThenFetchesInOrder /\ <>(pc = "returned")

\* The case of C23: a fleet of two, three requests, the call returned.
C23_Witness ==
    /\ pc = "returned"
    /\ result.err = NoError
    /\ Len(managedClusters) = 2
    /\ requests = <<ListRequest, GetRequest(ClusterNames[1]), GetRequest(ClusterNames[2])>>

\* ------------------------------------------------- the requests of Extract
\* The fetched ClusterDeployment names its secret.
SecretResolved ==
    /\ Len(fetched) >= 1
    /\ fetched[1].ok
    /\ CarriesSecretRef(fetched[1].obj)
    /\ Has(fetched[1].obj.spec.clusterMetadata.adminKubeconfigSecretRef, "name")

\* C24: one Extract call fetches the ClusterDeployment at most once and reads
\* the secret at most once; the secret is read only after the fetch succeeded
\* and gave a secret name, in the namespace named like the cluster and under
\* that name; a failure is followed by no further request.
C24_AtMostOneFetchOneRead ==
    /\ Len(requests) = Len(fetched)
    /\ Len(requests) <= 2
    /\ pc = "extract" => requests = <<>>
    /\ Len(requests) >= 1 =>
           requests[1] = [verb |-> "get", resource |-> "clusterdeployments",
                          namespace |-> clusterName, name |-> clusterName]
    /\ Len(requests) = 2 =>
           /\ SecretResolved
           /\ requests[2] =
                  [verb |-> "get", resource |-> "secrets", namespace |-> clusterName,
                   name |-> fetched[1].obj.spec.clusterMetadata.adminKubeconfigSecretRef.name]
    /\ pc = "secret" => (Len(requests) = 1 /\ SecretResolved)
    /\ (Extracted /\ ~SecretResolved) =>
           (Len(requests) = 1 /\ extracted.err # NoError)
    /\ (Extracted /\ SecretResolved) => Len(requests) = 2

\* The case of C24: the secret was not there; two requests, and the call over.
C24_Witness ==
    /\ Extracted
    /\ SecretMissing
    /\ extracted.err # NoError
    /\ requests = <<GetRequest(clusterName), SecretRequest(clusterName, "admin-kubeconfig")>>

\* C25: every error Extract returns names the cluster it was called for, and
\* every failure after the secret's name was resolved names the secret too.
C25_ErrorsNameClusterAndSecret ==
    (Extracted /\ extracted.err # NoError) =>
        /\ Contains(extracted.err, <<clusterName>>)
        /\ SecretResolved => Contains(extracted.err, <<secretName>>)

\* ------------------------------------------------- what "Unknown" tells
\* The power state document d designates: the status section's when it
\* carries one, otherwise the spec section's, otherwise the empty string.
SelectedPowerState(d) ==
    IF Has(Section(d, "status"), "powerState") THEN d.status.powerState
    ELSE IF Has(Section(d, "spec"), "powerState") THEN d.spec.powerState
    ELSE ""

\* C26 as stated: an entry with PowerState "Unknown" belongs to a cluster
\* whose fetch failed for another reason than absence; a cluster whose record
\* was fetched successfully and does not itself carry the power state
\* "Unknown" never gets PowerState "Unknown".
C26_UnknownMeansOtherFailure ==
    \A i \in 1..Len(fetched) :
        /\ Entries[i].PowerState = "Unknown" => OtherFailure(i)
        /\ (Got(i).ok /\ SelectedPowerState(fetched[i].obj) # "Unknown") =>
               Entries[i].PowerState # "Unknown"

\* C26 amended: an entry with PowerState "Unknown" belongs either to a
\* cluster whose fetch failed for another reason than absence, or to a
\* cluster whose record was fetched and parsed and designates no power state,
\* an empty one or the literal "Unknown"; a fetched record that designates
\* any other power state gets that power state, and an absent record "N/A".
C26_UnknownMeansFailureOrNoPowerState ==
    \A i \in 1..Len(fetched) :
        /\ Entries[i].PowerState = "Unknown" =>
               \/ OtherFailure(i)
               \/ (Got(i).ok /\ SelectedPowerState(fetched[i].obj) \in {"", "Unknown"})
        /\ (Got(i).ok /\ SelectedPowerState(fetched[i].obj) \notin {"", "Unknown"}) =>
               Entries[i].PowerState = SelectedPowerState(fetched[i].obj)
        /\ Absent(i) => Entries[i].PowerState = "N/A"

\* The case of C26: a returned fleet of two, both "Unknown": the first
\* cluster's record was found and carries no power state, the second's fetch
\* did not reach the hub.
C26_Witness ==
    /\ pc = "returned"
    /\ Len(fetched) = 2
    /\ Got(1).ok
    /\ fetched[1].obj = BareDocument(managedClusters[1].Name)
    /\ result.clusters[1].PowerState = "Unknown"
    /\ fetched[2].err = ConnectionError
    /\ result.clusters[2].PowerState = "Unknown"

\* ------------------------------------------------- hub managedclusters
\* main.go:171-180: the --status filter of the wide view, written out in
\* the command: the same loop as Filter's, over the combined entries.
statusFilteredCombined(cs, statusFilter) ==
    IF statusFilter # "" THEN filterLoop(cs, statusFilter, 1, <<>>)
    ELSE cs

\* Mutant: a --status value that is no status is not applied.
statusFilteredKeepingUnrecognized(cs, statusFilter) ==
    IF statusFilter \in ClusterStatuses THEN Filter(cs, [Status |-> statusFilter])
    ELSE cs

\* main.go:196-202: the --status filter of the standard view.
statusFiltered(cs, statusFilter) ==
    IF statusFilter # "" THEN Filter(cs, [Status |-> statusFilter])
    ELSE cs

\* The answers to the fetches for the clusters mcs during the command, one
\* per cluster, in order: the record is found complete, or there is none.
RunFetches(mcs) ==
    LET for(n) == {[ok |-> TRUE, obj |-> RunningDocument(n), err |-> NoError],
                   [ok |-> FALSE, obj |-> NilObject, err |-> NotFoundError(n)]} IN
    {as \in [1..Len(mcs) -> UNION {for(mcs[i].Name) : i \in 1..Len(mcs)}] :
        \A i \in 1..Len(mcs) : as[i] \in for(mcs[i].Name)}

\* SpecRun: one run of `labrat hub managedclusters` with table output.
InitRun ==
    /\ pc = "run"
    /\ cluster = NoCluster
    /\ info = NoInfo
    /\ clusters = <<>>
    /\ filter \in [Status : FilterCriteria]
    /\ filtered = <<>>
    /\ managedClusters = <<>>
    /\ err = NoError
    /\ fetched = <<>>
    /\ combined = <<>>
    /\ result = NoResult
    /\ requests = <<>>
    /\ IdleGet /\ IdleExtract
    /\ wide \in BOOLEAN
    /\ output = <<>>

\* main.go:135-209: hubManagedClustersCmd.RunE.  The configuration does not
\* load or no client is made (main.go:142-152), or the clusters are listed,
\* filtered and written as a table.  filter.Status is the value
\* of --status; clusters is what List returned, result what ListCombined
\* returned, filtered and combined what was handed to the OutputWriter.
RunManagedClusters ==
    /\ pc = "run"
    /\ pc' = "ran"
    /\ \/ \E e \in {<<"failed", "to", "load", "config", ":">>,
                     <<"failed", "to", "create", "kubernetes", "client", ":">>} :
            /\ err' = e
            /\ UNCHANGED <<clusters, managedClusters, fetched, result, filtered,
                           combined, output>>
       \/ /\ wide
          /\ \E answer \in ListAnswers :
               LET listed == List(answer) IN
               /\ managedClusters' = listed.clusters
               /\ \E answers \in RunFetches(listed.clusters) :
                    LET returned == IF afterList(listed).pc = "returned"
                                    THEN afterList(listed).result
                                    ELSE [clusters |-> listCombinedLoop(listed.clusters,
                                                                        answers, 1, <<>>),
                                          err |-> NoError] IN
                    /\ fetched' = (IF returned.err # NoError THEN <<>> ELSE answers)
                    /\ result' = returned
                    /\ IF returned.err # NoError
                       THEN /\ err' = <<"failed", "to", "list", "combined", "clusters", ":">>
                                         \o returned.err
                            /\ combined' = <<>>
                            /\ output' = <<>>
                       ELSE /\ err' = NoError
                            /\ combined' = statusFilteredCombined(returned.clusters,
                                                                  filter.Status)
                            /\ output' = writeCombinedTable(combined', TRUE)
          /\ UNCHANGED <<clusters, filtered>>
       \/ /\ ~wide
          /\ \E answer \in ListAnswers :
               LET listed == List(answer) IN
               /\ clusters' = listed.clusters
               /\ IF listed.err # NoError
                  THEN /\ err' = <<"failed", "to", "list", "managed", "clusters", ":">>
                                    \o listed.err
                       /\ filtered' = <<>>
                       /\ output' = <<>>
                  ELSE /\ err' = NoError
                       /\ filtered' = statusFiltered(listed.clusters, filter.Status)
                       /\ output' = writeTable(filtered')
          /\ UNCHANGED <<managedClusters, fetched, result, combined>>
    /\ UNCHANGED <<cluster, info, filter, requests, wide>>
    /\ UNCHANGED <<getVars, extractVars>>

NextRun == RunManagedClusters

SpecRun == InitRun /\ [][NextRun]_vars

\* What the run listed and what it showed.
RunListed == IF wide THEN result.clusters ELSE clusters
RunShown == IF wide THEN combined ELSE filtered
UnrecognizedStatus == filter.Status # "" /\ filter.Status \notin ClusterStatuses

C29_FailedExtractLeavesFiles ==
    [][/\ (pc' = "returned" /\ extracted.err # NoError) =>
              /\ outputFile' = outputFile
              /\ written' = extracted.err
       /\ pc' # "returned" => outputFile' = outputFile]_vars

\* The cases of C29: ExtractToFile returned Extract's error; the parent
\* directory is still missing, or the old file still holds its old bytes.
C29_Witness ==
    /\ pc = "returned"
    /\ operation = "ExtractToFile"
    /\ extracted.err # NoError
    /\ written = extracted.err
    /\ outputFile.parent = "absent"
    /\ outputFile.kind = "absent"

C29_WitnessOldFile ==
    /\ pc = "returned"
    /\ operation = "ExtractToFile"
    /\ extracted.err # NoError
    /\ written = extracted.err
    /\ outputFile.kind = "file"
    /\ outputFile.data = OldData

\* ------------------------------------------------- Get and Extract agree
\* What Get makes of the ClusterDeployment that Extract fetched.
GetOfFetched == Get(clusterName, fetched[1])

\* The document Extract fetched is stored under the cluster's name: it was
\* fetched from namespace clusterName and its metadata says so.
StoredUnderName ==
    /\ requests[1] = GetRequest(clusterName)
    /\ Field(Section(fetched[1].obj, "metadata"), "namespace", "") = clusterName

\* Both Get and Extract resolve a secret reference from the fetched document.
BothResolve ==
    /\ Len(requests) = 2
    /\ SecretResolved
    /\ GetOfFetched.ok
    /\ GetOfFetched.info.KubeconfigSecretName # ""

\* C30: for a document stored under cluster name n from which Get and Extract
\* both resolve a secret reference, the secret name Extract asks for is the
\* KubeconfigSecretName Get reports, the namespace Extract reads the secret
\* from is n and is the KubeconfigSecretNS Get reports, and ListCombined
\* renders exactly that namespace and name.
C30_GetAndExtractSameSecret ==
    (BothResolve /\ StoredUnderName) =>
        /\ requests[2].verb = "get" /\ requests[2].resource = "secrets"
        /\ requests[2].name = GetOfFetched.info.KubeconfigSecretName
        /\ requests[2].namespace = clusterName
        /\ requests[2].namespace = GetOfFetched.info.KubeconfigSecretNS
        /\ combinedEntry(clusterInfo([Name |-> clusterName, Taints |-> <<>>,
                                      Conditions |-> <<>>]),
                         GetOfFetched).KubeconfigSecret
               = formatSecret(requests[2].namespace, requests[2].name)

\* The case of C30: Extract read the secret the complete document names, and
\* Get reports that namespace and name for the same document.
C30_Witness ==
    /\ BothResolve
    /\ StoredUnderName
    /\ fetched[1].obj = RunningDocument(clusterName)
    /\ requests[2] = SecretRequest(clusterName, "admin-kubeconfig")
    /\ GetOfFetched.info.KubeconfigSecretNS = clusterName
    /\ GetOfFetched.info.KubeconfigSecretName = "admin-kubeconfig"

====
